---- MODULE Spec2Model ----
(***************************************************************************)
(* Juptidu: rebalancing policies for concentrated-liquidity positions.     *)
(*                                                                         *)
(* The model follows src/Juptidu/src.  Decimal amounts (balances, prices,  *)
(* fees, percentages) are fixed-point integers with DecimalPlaces digits   *)
(* after the point; Decimal division and multiplication round to that      *)
(* precision with ROUND_HALF_EVEN, Python's default context rounding.      *)
(* Timestamps are counted in bar steps; Timestamp(0) is the value 0.       *)
(*                                                                         *)
(* A handler is a function from a "world" record (the mutable state the    *)
(* handler reads and writes) to the world after it.  A raised exception is *)
(* the field err: once set, the rest of the handler is skipped, as the     *)
(* exception propagates to the caller of the run.                          *)
(***************************************************************************)
EXTENDS Integers, Sequences, FiniteSets, TLC

\* ------------------------------------------------------------------ bounds
DecimalPlaces == 2
StepsPerDay == 3
DaysPerYear == 3
MaxTime == 9
MaxCharges == 2

\* --------------------------------------------------------------- constants
EpochYear == 2015
None == <<>>
NoError == "none"

\* ----------------------------------------------------------------- numbers
Scale == 10 ^ DecimalPlaces

\* Decimal(n) for an integer n
Dec(n) == n * Scale

ONE == Dec(1)

PERCENT_TO_DECIMAL == Scale \div 100

Min2(a, b) == IF a <= b THEN a ELSE b

Max2(a, b) == IF a >= b THEN a ELSE b

Abs(a) == IF a < 0 THEN 0 - a ELSE a

\* n/d rounded to the nearest integer, ties to even (d > 0)
RoundHalfEven(n, d) ==
    LET q == n \div d
        r == n % d
    IN  IF 2 * r > d \/ (2 * r = d /\ q % 2 = 1) THEN q + 1 ELSE q

\* Decimal a / b and a * b at the model's precision
DecDiv(a, b) == RoundHalfEven(a * Scale, b)

DecMul(a, b) == RoundHalfEven(a * b, Scale)

\* -------------------------------------------------------------------- time
StepsPerYear == StepsPerDay * DaysPerYear

YearOf(ts) == EpochYear + (ts \div StepsPerYear)

DayOfYear(ts) == ((ts % StepsPerYear) \div StepsPerDay) + 1

timestamp_to_key(ts) == <<YearOf(ts), DayOfYear(ts)>>

is_one_day_or_older(historical_timestamp, current_timestamp) ==
    current_timestamp - historical_timestamp >= StepsPerDay

\* --------------------------------------------------------------- fee table
Fee(swap_in, liquidity_providing, removing_liquidity) ==
    [swap_in |-> swap_in, liquidity_providing |-> liquidity_providing,
     removing_liquidity |-> removing_liquidity]

FeeA == Fee(Dec(1), Dec(3), Dec(2))

FeeB == Fee(Dec(2), Dec(4), Dec(3))

FeeC == Fee(Dec(6), Dec(8), Dec(7))

\* year -> Fee tables: one key (as the arbitrum tables), consecutive keys (as
\* the ethereum tables), and keys with a gap
FeeTables ==
    { (EpochYear :> FeeA),
      (EpochYear :> FeeA) @@ (EpochYear + 1 :> FeeB),
      (EpochYear :> FeeC) @@ (EpochYear + 2 :> FeeB) }

MaxOf(S) == CHOOSE m \in S : \A k \in S : k <= m

MinOf(S) == CHOOSE m \in S : \A k \in S : m <= k

\* ------------------------------------------------------------------- state
VARIABLES
    phase,               \* "new" (constructed), "running" (initialize done), or the tag of a specification
    policy,              \* which strategy class the run uses
    config,              \* the constructor arguments of the strategy
    fees_configuration,  \* [bound, token, fee_rates]; bound = FALSE is "no fee configuration"
    market,              \* market_status: [price, timestamp] of the current bar
    account_status,      \* account_status[-1]: [len, timestamp, base_in_position, quote_in_position]
    assets,              \* broker.assets balances: [base, quote]
    positions,           \* market.positions: the open positions, in dict insertion order
    stats,               \* OperationsStats
    err,                 \* the exception that ended the run, or NoError
    current_range,       \* [low, high]: current_range_low / current_range_high
    last_successful_rebalance,  \* strategy C
    handler,             \* the operation the last step ran
    trace,               \* the pool calls and fee charges of that operation, in call order
    day_to_rebalance_count,     \* strategies A, B, C: day key -> count
    max_range_active_since,     \* strategy B
    performed,           \* history: day key -> rebalances on_bar did under that key, all / since the last reset
    widest_range_since,  \* history: the bar since which the open position's range is the widest tier's, 0 if it is not
    initialized,         \* extend-and-decrease strategy
    is_range_increased,  \* extend-and-decrease strategy
    is_hodl_mode_active,        \* strategy B with HODL
    hodl_status,         \* strategy B with HODL: HodlModeStatus
    rebalances,          \* strategy D: the timestamps on_successful_position_opened appended
    hodl_entered,        \* history: the timestamp of the bar on which HODL mode was last entered
    hodl_left,           \* history: the timestamp of the bar on which HODL mode was last left
    rebalanced,          \* history: the timestamps of the rebalances done, by direction
    price_series,        \* data.default.price up to the current bar, as PricePoints
    hodl_mode_start_timestamp,  \* time-dynamic ranges: None or the timestamp
    last_active_position_start_price,  \* asymmetric strategy: None until initialize_custom set it
    is_enough_data_to_start_flag,  \* time-dynamic ranges
    tracked,             \* partial rebalance: active_partial_rebalance_positions_dict, in insertion order
    looked_up,           \* result of the last get_fee_rate_for_year query
    computed             \* the last call of a function of strategy_utils: its arguments and result

\* the strategy object and its fee configuration, fixed once the run started
runVars == <<phase, policy, config, fees_configuration>>

\* what the backtest driver sets for each bar
barVars == <<market, account_status>>

\* what Commit writes
worldVars == <<assets, positions, stats, err, current_range, last_successful_rebalance, trace,
               hodl_status, rebalances>>

ladderVars == <<day_to_rebalance_count, max_range_active_since, performed, widest_range_since>>

extendVars == <<initialized, is_range_increased>>

hodlVars == <<is_hodl_mode_active, hodl_mode_start_timestamp, hodl_entered, hodl_left, rebalanced,
              price_series, last_active_position_start_price, is_enough_data_to_start_flag>>

vars == <<runVars, barVars, worldVars, handler, ladderVars, extendVars, hodlVars, tracked, looked_up,
         computed>>

\* ------------------------------------------------------------------- world
\* The state a handler reads and writes, taken at the current bar.
World(price, now) ==
    [price |-> price, now |-> now, base |-> assets.base, quote |-> assets.quote,
     pos |-> positions, stats |-> stats, err |-> err,
     low |-> current_range.low, high |-> current_range.high,
     last |-> last_successful_rebalance, trace |-> <<>>, ret |-> <<>>,
     hodl |-> hodl_status, rebalances |-> rebalances]

Ev(op, args) == [op |-> op, args |-> args]

Log(w, op, args) == [w EXCEPT !.trace = Append(@, Ev(op, args))]

Raise(w, message) == [w EXCEPT !.err = message]

\* a local: the statements F with the value v bound
Let(v, F(_)) == F(v)

\* statements in sequence: an exception raised by the first skips the rest
Then(w, F(_)) == IF w.err # NoError THEN w ELSE F(w)

\* Optional[...] values: None is <<>>, a value x is <<x>>
Some(x) == <<x>>

PositionInfo(lower, upper) == <<lower, upper>>

KeyOf(p) == PositionInfo(p.lower, p.upper)

Keys(pos) == [i \in 1..Len(pos) |-> KeyOf(pos[i])]

IndexOf(pos, key) ==
    IF \E i \in 1..Len(pos) : KeyOf(pos[i]) = key
    THEN CHOOSE i \in 1..Len(pos) : KeyOf(pos[i]) = key
    ELSE 0

RemoveAt(seq, i) == SubSeq(seq, 1, i - 1) \o SubSeq(seq, i + 1, Len(seq))

\* ---------------------------------------------------------- pool (external)
\* The pool collaborator of the external-interfaces contract: a position is
\* keyed by its bounds (PositionInfo), adding to an existing key adds to that
\* position, a position whose liquidity reaches 0 leaves market.positions.
\* This pool takes every amount it is offered and gives back what it holds.
pool_add_liquidity(w, lower, upper, base_max, quote_max) ==
    LET base_used == IF base_max = None THEN w.base ELSE Min2(w.base, Max2(base_max[1], 0))
        quote_used == IF quote_max = None THEN w.quote ELSE Min2(w.quote, Max2(quote_max[1], 0))
        liquidity == base_used + DecMul(quote_used, w.price)
        i == IndexOf(w.pos, PositionInfo(lower, upper))
        fresh == [lower |-> lower, upper |-> upper, liquidity |-> liquidity,
                  base |-> base_used, quote |-> quote_used, range |-> None]
        w1 == [w EXCEPT !.base = @ - base_used, !.quote = @ - quote_used,
                        !.pos = IF i = 0 THEN Append(@, fresh)
                                ELSE [@ EXCEPT ![i].liquidity = @ + liquidity,
                                               ![i].base = @ + base_used,
                                               ![i].quote = @ + quote_used],
                        !.ret = <<lower, upper, base_used, quote_used, liquidity>>]
    IN  Log(w1, "add_liquidity", <<lower, upper, base_max, quote_max, w.base, w.quote>>)

pool_remove_liquidity(w, position, liquidity) ==
    LET i == IndexOf(w.pos, position)
    IN  IF i = 0 THEN Raise(w, "KeyError")
        ELSE
        LET p == w.pos[i]
            amount == IF liquidity = None THEN p.liquidity
                      ELSE Min2(Max2(liquidity[1], 0), p.liquidity)
            full == amount = p.liquidity
            base_received == IF full THEN p.base ELSE (p.base * amount) \div p.liquidity
            quote_received == IF full THEN p.quote ELSE (p.quote * amount) \div p.liquidity
            w1 == [w EXCEPT !.base = @ + base_received, !.quote = @ + quote_received,
                            !.pos = IF full THEN RemoveAt(@, i)
                                    ELSE [@ EXCEPT ![i].liquidity = @ - amount,
                                                   ![i].base = @ - base_received,
                                                   ![i].quote = @ - quote_received],
                            !.ret = <<base_received, quote_received>>]
        IN  Log(w1, "remove_liquidity", <<position[1], position[2], liquidity>>)

RECURSIVE pool_remove_each(_, _)
pool_remove_each(w, keys) ==
    IF keys = <<>> THEN w
    ELSE pool_remove_each(pool_remove_liquidity(w, Head(keys), None), Tail(keys))

\* market.remove_all_liquidity(): the pool's own method
pool_remove_all_liquidity(w) == pool_remove_each(w, Keys(w.pos))

pool_even_rebalance(w, price) ==
    LET total_capital == w.base + DecMul(w.quote, w.price)
        target_base_amount == RoundHalfEven(total_capital, 2)
        w1 == [w EXCEPT !.base = target_base_amount,
                        !.quote = DecDiv(total_capital - target_base_amount, price)]
    IN  Log(w1, "even_rebalance", <<price>>)

\* market.buy / market.sell: buy quote for base, sell quote for base
pool_buy(w, quote_amount) ==
    LET cost == Min2(w.base, DecMul(quote_amount, w.price))
    IN  Log([w EXCEPT !.base = @ - cost, !.quote = @ + DecDiv(cost, w.price)], "buy", <<quote_amount>>)

pool_sell(w, quote_amount) ==
    LET sold == Min2(w.quote, quote_amount)
    IN  Log([w EXCEPT !.quote = @ - sold, !.base = @ + DecMul(sold, w.price)], "sell", <<quote_amount>>)

\* base_in_position / quote_in_position of an account status: above its range
\* a position holds base only, below it quote only
base_in_position(pos, price) ==
    \E i \in 1..Len(pos) : pos[i].liquidity > 0 /\ price > pos[i].lower

quote_in_position(pos, price) ==
    \E i \in 1..Len(pos) : pos[i].liquidity > 0 /\ price < pos[i].upper

\* -------------------------------------------------------------- fee ledger
get_fee_rate_for_year_min(year) ==
    LET fee_rates == fees_configuration.fee_rates
    IN  IF year \in DOMAIN fee_rates THEN fee_rates[year]
        ELSE fee_rates[MinOf(DOMAIN fee_rates)]

get_fee_rate_for_year(year) ==
    LET fee_rates == fees_configuration.fee_rates
    IN  IF year \in DOMAIN fee_rates THEN fee_rates[year]
        ELSE fee_rates[MaxOf(DOMAIN fee_rates)]

deduct_fee_from_balance(w, amount, is_fee_token_base_token) ==
    IF is_fee_token_base_token
    THEN [w EXCEPT !.base = @ - amount, !.ret = <<amount, 0>>]
    ELSE [w EXCEPT !.quote = @ - amount, !.ret = <<0, amount>>]

\* mutants of the conversion: the wrong direction, a strict comparison
pay_remaining_fee_in_quote_token_times(w, amount) ==
    LET fee_to_be_paid_in_quote_token == DecMul(amount, w.price)
    IN  IF w.quote >= fee_to_be_paid_in_quote_token
        THEN [w EXCEPT !.quote = @ - fee_to_be_paid_in_quote_token, !.base = 0,
                       !.ret = <<fee_to_be_paid_in_quote_token>>]
        ELSE Raise(w, "Ran out of funds to pay gas fees!")

pay_remaining_fee_in_quote_token_strict(w, amount) ==
    LET fee_to_be_paid_in_quote_token == DecDiv(amount, w.price)
    IN  IF w.quote > fee_to_be_paid_in_quote_token
        THEN [w EXCEPT !.quote = @ - fee_to_be_paid_in_quote_token, !.base = 0,
                       !.ret = <<fee_to_be_paid_in_quote_token>>]
        ELSE Raise(w, "Ran out of funds to pay gas fees!")

pay_remaining_fee_in_quote_token(w, amount) ==
    LET fee_to_be_paid_in_quote_token == DecDiv(amount, w.price)
    IN  IF w.quote >= fee_to_be_paid_in_quote_token
        THEN [w EXCEPT !.quote = @ - fee_to_be_paid_in_quote_token, !.base = 0,
                       !.ret = <<fee_to_be_paid_in_quote_token>>]
        ELSE Raise(w, "Ran out of funds to pay gas fees!")

pay_remaining_fee_in_base_token(w, amount) ==
    LET fee_to_be_paid_in_base_token == DecMul(amount, w.price)
    IN  IF w.base >= fee_to_be_paid_in_base_token
        THEN [w EXCEPT !.base = @ - fee_to_be_paid_in_base_token, !.quote = 0,
                       !.ret = <<fee_to_be_paid_in_base_token>>]
        ELSE Raise(w, "Ran out of funds to pay gas fees!")

substract_gas_fee_on_insufficient_fee_token_amount(w, fee_amount, is_fee_token_base_token) ==
    LET available_fee_token_balance == IF is_fee_token_base_token THEN w.base ELSE w.quote
        remaining_fee_to_be_paid == fee_amount - available_fee_token_balance
    IN  IF is_fee_token_base_token
        THEN Then(pay_remaining_fee_in_quote_token(w, remaining_fee_to_be_paid), LAMBDA w1 :
                  [w1 EXCEPT !.ret = <<available_fee_token_balance, w1.ret[1]>>])
        ELSE Then(pay_remaining_fee_in_base_token(w, remaining_fee_to_be_paid), LAMBDA w1 :
                  [w1 EXCEPT !.ret = <<w1.ret[1], available_fee_token_balance>>])

\* the charge; the trace entry records the balances it found and what it spent
substract_gas_fee(w, fee_amount) ==
    IF w.err # NoError THEN w
    ELSE
    LET is_fee_token_base_token == fees_configuration.token = "base"
        fee_token_balance == IF is_fee_token_base_token THEN w.base ELSE w.quote
    IN  Let(IF fee_token_balance >= fee_amount
            THEN deduct_fee_from_balance(w, fee_amount, is_fee_token_base_token)
            ELSE substract_gas_fee_on_insufficient_fee_token_amount(w, fee_amount,
                                                                    is_fee_token_base_token),
            LAMBDA w1 :
                IF w1.err # NoError
                THEN Log(w1, "fee_failed", <<fee_amount, w.base, w.quote>>)
                ELSE Log(w1, "fee", <<fee_amount, w.base, w.quote, w1.ret[1], w1.ret[2]>>))


\* ------------------------------------------------- BrokkrStrategy primitives
\* bounds at the same distance below and above the price
get_lower_upper_price_for_linear_range(range_in_percentage, price) ==
    LET range == DecMul(PERCENT_TO_DECIMAL, range_in_percentage)
    IN  <<DecMul(price, ONE - range), DecMul(price, ONE + range)>>

\* bounds that divide by the downside as the symmetric range does
get_lower_upper_price_for_divided_range(range_dwn_in_percentage, range_up_in_percentage, price) ==
    LET range_downside == DecMul(PERCENT_TO_DECIMAL, range_dwn_in_percentage)
        range_upside == DecMul(PERCENT_TO_DECIMAL, range_up_in_percentage)
    IN  <<DecDiv(price, ONE + range_downside), DecMul(price, ONE + range_upside)>>

get_lower_upper_price_for_symmetric_range(range_in_percentage, price) ==
    LET range == DecMul(PERCENT_TO_DECIMAL, range_in_percentage)
    IN  <<DecDiv(price, ONE + range), DecMul(price, ONE + range)>>

get_lower_upper_price_for_asymmetric_range(range_dwn_in_percentage, range_up_in_percentage, price) ==
    LET range_downside == DecMul(PERCENT_TO_DECIMAL, range_dwn_in_percentage)
        range_upside == DecMul(PERCENT_TO_DECIMAL, range_up_in_percentage)
    IN  <<DecMul(price, ONE - range_downside), DecMul(price, ONE + range_upside)>>

get_rebalance_direction(position, current_price) ==
    LET diff_down == Abs(current_price - position[1])
        diff_up == Abs(current_price - position[2])
    IN  IF diff_up < diff_down THEN "UP" ELSE "DOWN"

\* list(market.positions) sorted by the price of the lower tick (a stable sort)
RECURSIVE sorted_by_lower(_)
sorted_by_lower(pos) ==
    IF pos = <<>> THEN <<>>
    ELSE LET i == CHOOSE j \in 1..Len(pos) :
                      /\ \A k \in 1..Len(pos) : pos[j].lower <= pos[k].lower
                      /\ \A k \in 1..(j - 1) : pos[k].lower # pos[j].lower
         IN  <<KeyOf(pos[i])>> \o sorted_by_lower(RemoveAt(pos, i))

\* BrokkrStrategyD.get_middle_position / get_highest_position / get_lowest_position
get_middle_position(pos) == sorted_by_lower(pos)[((Len(pos) - 1) \div 2) + 1]

get_highest_position(pos) == sorted_by_lower(pos)[Len(pos)]

get_lowest_position(pos) == sorted_by_lower(pos)[1]

\* BrokkrStrategy.on_successful_position_opened and its overrides in strategy C,
\* in strategy B with HODL and in strategy D
on_successful_position_opened(w, timestamp, range_min, range_max, rebalance_direction) ==
    LET w1 == [w EXCEPT !.low = range_min, !.high = range_max]
    IN  IF policy = "D"
        THEN [w EXCEPT !.rebalances = Append(@, timestamp),
                       !.low = get_middle_position(w.pos)[1],
                       !.high = get_middle_position(w.pos)[2]]
        ELSE IF policy = "C" THEN [w1 EXCEPT !.last = timestamp]
        ELSE IF policy = "BH" /\ rebalance_direction = "UP"
        THEN [w1 EXCEPT !.hodl.rebalances_up = Append(@, timestamp)]
        ELSE IF policy = "BH" /\ rebalance_direction = "DOWN"
        THEN [w1 EXCEPT !.hodl.rebalances_down = Append(@, timestamp)]
        ELSE w1

\* a close that is charged before the pool is called
remove_liquidity_charged_first(w, position, liquidity) ==
    IF w.err # NoError THEN w
    ELSE
    LET fee == get_fee_rate_for_year(YearOf(w.now)).removing_liquidity
    IN  Then(IF fees_configuration.bound THEN substract_gas_fee(w, fee) ELSE w, LAMBDA w1 :
            Then(pool_remove_liquidity(w1, position, liquidity), LAMBDA w2 :
                [w2 EXCEPT !.stats.withdrawing_lp_count = @ + 1,
                           !.stats.withdrawing_lp_cost =
                               IF fees_configuration.bound THEN @ + fee ELSE @]))

remove_liquidity(w, position, liquidity) ==
    IF w.err # NoError THEN w
    ELSE
    Then(pool_remove_liquidity(w, position, liquidity), LAMBDA w1 :
        LET w2 == [w1 EXCEPT !.stats.withdrawing_lp_count = @ + 1]
            fee == get_fee_rate_for_year(YearOf(w.now)).removing_liquidity
        IN  IF ~fees_configuration.bound THEN w2
            ELSE Then(substract_gas_fee(w2, fee), LAMBDA w3 :
                     [w3 EXCEPT !.stats.withdrawing_lp_cost = @ + fee, !.ret = w1.ret]))

RECURSIVE remove_each(_, _)
remove_each(w, keys) ==
    IF keys = <<>> THEN w
    ELSE remove_each(remove_liquidity(w, Head(keys), None), Tail(keys))

remove_all_liquidity(w) ==
    IF w.err # NoError \/ Len(w.pos) < 1 THEN w
    ELSE remove_each(w, Keys(w.pos))

symmetrical_rebalance(w, init_price) ==
    IF w.err # NoError THEN w
    ELSE
    LET fee == get_fee_rate_for_year(YearOf(w.now)).swap_in
    IN  Then(IF fees_configuration.bound THEN substract_gas_fee(w, fee) ELSE w, LAMBDA w1 :
            LET w2 == IF fees_configuration.bound
                      THEN [w1 EXCEPT !.stats.rebalances_cost = @ + fee] ELSE w1
                w3 == pool_even_rebalance(w2, init_price)
            IN  [w3 EXCEPT !.stats.rebalances_count = @ + 1])

\* an open that offers the pool the explicit maxima as given
add_liquidity_custom_range_unreduced(w, lower_quote_price, upper_quote_price, base_max_amount, quote_max_amount, rebalance_direction) ==
    IF w.err # NoError THEN w
    ELSE
    LET fee == get_fee_rate_for_year(YearOf(w.now)).liquidity_providing
        w0 == Log(w, "open", <<lower_quote_price, upper_quote_price, base_max_amount,
                               quote_max_amount>>)
    IN  Then(IF fees_configuration.bound THEN substract_gas_fee(w0, fee)
             ELSE [w0 EXCEPT !.ret = <<0, 0>>], LAMBDA w1 :
            LET w2 == IF fees_configuration.bound
                      THEN [w1 EXCEPT !.stats.providing_lp_cost = @ + fee] ELSE w1
            IN  Let(pool_add_liquidity(w2, lower_quote_price, upper_quote_price,
                                       base_max_amount, quote_max_amount), LAMBDA w3 :
                    LET w4 == [w3 EXCEPT !.stats.providing_lp_count = @ + 1]
                        w5 == on_successful_position_opened(w4, w.now, lower_quote_price,
                                                            upper_quote_price,
                                                            rebalance_direction)
                    IN  [w5 EXCEPT !.ret = w3.ret]))

\* the trace entry "open" records the call and its arguments
add_liquidity_custom_range(w, lower_quote_price, upper_quote_price, base_max_amount, quote_max_amount, rebalance_direction) ==
    IF w.err # NoError THEN w
    ELSE
    LET fee == get_fee_rate_for_year(YearOf(w.now)).liquidity_providing
        w0 == Log(w, "open", <<lower_quote_price, upper_quote_price, base_max_amount,
                               quote_max_amount>>)
    IN  Then(IF fees_configuration.bound THEN substract_gas_fee(w0, fee)
             ELSE [w0 EXCEPT !.ret = <<0, 0>>], LAMBDA w1 :
            LET base_spent_on_fees == w1.ret[1]
                quote_spent_on_fees == w1.ret[2]
                w2 == IF fees_configuration.bound
                      THEN [w1 EXCEPT !.stats.providing_lp_cost = @ + fee] ELSE w1
            IN  Let(pool_add_liquidity(w2, lower_quote_price, upper_quote_price,
                        IF base_max_amount = None THEN None
                        ELSE Some(base_max_amount[1] - base_spent_on_fees),
                        IF quote_max_amount = None THEN None
                        ELSE Some(quote_max_amount[1] - quote_spent_on_fees)), LAMBDA w3 :
                    LET w4 == [w3 EXCEPT !.stats.providing_lp_count = @ + 1]
                        w5 == on_successful_position_opened(w4, w.now, lower_quote_price,
                                                            upper_quote_price,
                                                            rebalance_direction)
                    IN  [w5 EXCEPT !.ret = w3.ret]))

\* the range tag ("custom manual property used in strategy D") is set on the
\* position the pool returned
add_liquidity(w, range, base_max_amount, quote_max_amount, rebalance_direction, init_price) ==
    IF w.err # NoError THEN w
    ELSE
    LET bounds == get_lower_upper_price_for_symmetric_range(range, init_price)
    IN  Then(add_liquidity_custom_range(w, bounds[1], bounds[2], base_max_amount,
                                        quote_max_amount, rebalance_direction), LAMBDA w1 :
            [w1 EXCEPT !.pos[IndexOf(w1.pos, PositionInfo(bounds[1], bounds[2]))].range = Some(range)])

\* a rebalance that evens the capital out before it removes the positions
rebalance_and_add_symmetric_liquidity_rebalance_first(w, range_in_percentage) ==
    IF w.err # NoError THEN w
    ELSE
    LET init_price == w.price
        rebalance_direction == IF Len(w.pos) > 0
                               THEN get_rebalance_direction(KeyOf(w.pos[Len(w.pos)]), init_price)
                               ELSE "NONE"
        w1 == symmetrical_rebalance(w, init_price)
        w2 == IF Len(w1.pos) > 0 THEN remove_all_liquidity(w1) ELSE w1
    IN  add_liquidity(w2, range_in_percentage, None, None, rebalance_direction, init_price)

rebalance_and_add_symmetric_liquidity(w, range_in_percentage) ==
    IF w.err # NoError THEN w
    ELSE
    LET init_price == w.price
        rebalance_direction == IF Len(w.pos) > 0
                               THEN get_rebalance_direction(KeyOf(w.pos[Len(w.pos)]), init_price)
                               ELSE "NONE"
        w1 == IF Len(w.pos) > 0 THEN remove_all_liquidity(w) ELSE w
        w2 == symmetrical_rebalance(w1, init_price)
    IN  add_liquidity(w2, range_in_percentage, None, None, rebalance_direction, init_price)

\* a rebalance whose arithmetic takes any lower bound
rebalance_and_add_asymmetric_liquidity_unguarded(w, range_dwn_in_percentage, range_up_in_percentage, swap) ==
    IF w.err # NoError THEN w
    ELSE
    LET bounds == get_lower_upper_price_for_asymmetric_range(range_dwn_in_percentage,
                                                             range_up_in_percentage, w.price)
    IN  Then(IF Len(w.pos) > 0 THEN remove_all_liquidity(w) ELSE w, LAMBDA w1 :
            LET w2 == IF swap = "buy" THEN pool_buy(w1, DecDiv(w1.base \div 2, w1.price))
                      ELSE IF swap = "sell" THEN pool_sell(w1, w1.quote \div 2)
                      ELSE w1
            IN  add_liquidity_custom_range(w2, bounds[1], bounds[2], None, None, "NONE"))

\* calculate_base_diff_for_asymmetric_position is given ONE / lower_quote_price
\* and takes its square root: a lower bound of 0 raises DivisionByZero, a
\* negative one InvalidOperation (the square root of a negative Decimal).
\* Otherwise it works on square roots; its sign (buy quote, sell quote,
\* neither) is the input swap, the amount half of what is held of the token
\* given
rebalance_and_add_asymmetric_liquidity(w, range_dwn_in_percentage, range_up_in_percentage, swap) ==
    IF w.err # NoError THEN w
    ELSE
    LET bounds == get_lower_upper_price_for_asymmetric_range(range_dwn_in_percentage,
                                                             range_up_in_percentage, w.price)
    IN  Then(IF Len(w.pos) > 0 THEN remove_all_liquidity(w) ELSE w, LAMBDA w1 :
            IF bounds[1] = 0 THEN Raise(w1, "DivisionByZero")
            ELSE IF bounds[1] < 0 THEN Raise(w1, "InvalidOperation")
            ELSE
            LET w2 == IF swap = "buy" THEN pool_buy(w1, DecDiv(w1.base \div 2, w1.price))
                      ELSE IF swap = "sell" THEN pool_sell(w1, w1.quote \div 2)
                      ELSE w1
            IN  add_liquidity_custom_range(w2, bounds[1], bounds[2], None, None, "NONE"))

\* the handler's world becomes the state
Commit(w) ==
    /\ assets' = [base |-> w.base, quote |-> w.quote]
    /\ positions' = w.pos
    /\ stats' = w.stats
    /\ err' = w.err
    /\ current_range' = [low |-> w.low, high |-> w.high]
    /\ last_successful_rebalance' = w.last
    /\ trace' = w.trace
    /\ hodl_status' = w.hodl
    /\ rebalances' = w.rebalances

\* HodlModeStatus(): a fresh status
HodlModeStatus ==
    [rebalances_up |-> <<>>, rebalances_down |-> <<>>, prices_for_returning_window |-> <<>>]

ZeroStats ==
    [rebalances_count |-> 0, providing_lp_count |-> 0, withdrawing_lp_count |-> 0,
     rebalances_cost |-> 0, providing_lp_cost |-> 0, withdrawing_lp_cost |-> 0]

NoFeesConfiguration == [bound |-> FALSE, token |-> "base", fee_rates |-> (EpochYear :> Fee(0, 0, 0))]

FeesConfiguration(token, fee_rates) == [bound |-> TRUE, token |-> token, fee_rates |-> fee_rates]

NoAccountStatus == [len |-> 0, timestamp |-> 0, base_in_position |-> FALSE, quote_in_position |-> FALSE]


\* ======================================================= the fee ledger alone
\* substract_gas_fee and get_fee_rate_for_year applied to inputs drawn from
\* bounded sets: any fee token, table, balances and price, then any charges.
ChargeBalances == {Dec(0), Dec(1), Dec(3), Dec(4), Dec(100)}

ChargePrices == {Dec(2), Dec(3)}

ChargeAmounts == {Dec(1), Dec(5), Dec(10)}

QueryYears == (EpochYear - 1)..(EpochYear + 3)

NotLookedUp == [year |-> 0, fee |-> Fee(0, 0, 0)]

\* the variables a specification does not use keep these values
Idle ==
    /\ positions = <<>>
    /\ stats = ZeroStats
    /\ err = NoError
    /\ account_status = NoAccountStatus
    /\ current_range = [low |-> 0, high |-> 0]
    /\ trace = <<>>
    /\ day_to_rebalance_count = <<>>
    /\ max_range_active_since = 0
    /\ last_successful_rebalance = 0
    /\ tracked = <<>>
    /\ looked_up = NotLookedUp
    /\ computed = <<>>
    /\ performed = <<>>
    /\ widest_range_since = 0
    /\ initialized = FALSE
    /\ is_range_increased = FALSE
    /\ handler = "none"
    /\ is_hodl_mode_active = FALSE
    /\ hodl_mode_start_timestamp = None
    /\ last_active_position_start_price = None
    /\ is_enough_data_to_start_flag = FALSE
    /\ hodl_status = HodlModeStatus
    /\ rebalances = <<>>
    /\ hodl_entered = 0
    /\ hodl_left = 0
    /\ rebalanced = [up |-> <<>>, down |-> <<>>]
    /\ price_series = <<>>

InitFee ==
    /\ Idle
    /\ config = <<>>
    /\ policy = "none"
    /\ phase = "fee ledger"
    /\ \E token \in {"base", "quote"}, fee_rates \in FeeTables :
           fees_configuration = FeesConfiguration(token, fee_rates)
    /\ \E base \in ChargeBalances, quote \in ChargeBalances :
           assets = [base |-> base, quote |-> quote]
    /\ \E price \in ChargePrices : market = [price |-> price, timestamp |-> 1]

\* one charge per bar, the price held
Charge ==
    /\ err = NoError
    /\ market.timestamp <= MaxCharges
    /\ market' = [market EXCEPT !.timestamp = @ + 1]
    /\ \E fee_amount \in ChargeAmounts :
           Commit(substract_gas_fee(World(market.price, market.timestamp), fee_amount))
    /\ handler' = "substract_gas_fee"
    /\ UNCHANGED <<runVars, account_status, ladderVars, extendVars, hodlVars, tracked, looked_up, computed>>

Lookup ==
    /\ \E year \in QueryYears :
           looked_up' = [year |-> year, fee |-> get_fee_rate_for_year(year)]
    /\ handler' = "get_fee_rate_for_year"
    /\ UNCHANGED <<runVars, barVars, worldVars, ladderVars, extendVars, hodlVars, tracked, computed>>

NextFee == Charge \/ Lookup

SpecFee == InitFee /\ [][NextFee]_vars

\* ---- the charges of the last handler
FeeEvents == {i \in 1..Len(trace) : trace[i].op = "fee"}

FailedFeeEvents == {i \in 1..Len(trace) : trace[i].op = "fee_failed"}

FeeTokenIsBase == fees_configuration.token = "base"

\* what one successful charge did, read off its trace entry
ChargedAmount(e) == e.args[1]

BaseBefore(e) == e.args[2]

QuoteBefore(e) == e.args[3]

BaseSpent(e) == e.args[4]

QuoteSpent(e) == e.args[5]

FeeTokenBefore(e) == IF FeeTokenIsBase THEN BaseBefore(e) ELSE QuoteBefore(e)

Shortfall(e) == ChargedAmount(e) - FeeTokenBefore(e)

\* the charge took the whole amount from the fee token only
PaidInFeeToken(e) ==
    /\ BaseSpent(e) = (IF FeeTokenIsBase THEN ChargedAmount(e) ELSE 0)
    /\ QuoteSpent(e) = (IF FeeTokenIsBase THEN 0 ELSE ChargedAmount(e))
    /\ assets.base = BaseBefore(e) - BaseSpent(e)
    /\ assets.quote = QuoteBefore(e) - QuoteSpent(e)

\* the charge drained the fee token and took the rest from the other token
PaidInBoth(e) ==
    /\ FeeTokenIsBase => BaseSpent(e) = BaseBefore(e) /\ assets.base = 0
                         /\ assets.quote = QuoteBefore(e) - QuoteSpent(e)
    /\ ~FeeTokenIsBase => QuoteSpent(e) = QuoteBefore(e) /\ assets.quote = 0
                          /\ assets.base = BaseBefore(e) - BaseSpent(e)

\* value of the other token's part, in the fee token, against the shortfall:
\* equal / equal up to half a unit of the rounded conversion
ConversionExact(e) ==
    IF FeeTokenIsBase THEN QuoteSpent(e) * market.price = Shortfall(e) * Scale
    ELSE BaseSpent(e) * Scale = Shortfall(e) * market.price

ConversionRounded(e) ==
    IF FeeTokenIsBase
    THEN 2 * Abs(QuoteSpent(e) * market.price - Shortfall(e) * Scale) <= market.price
    ELSE 2 * Abs(BaseSpent(e) * Scale - Shortfall(e) * market.price) <= Scale

\* C6 as stated: whenever the fee token does not cover the amount, the value
\* spent, converted at the current price, equals the fee amount exactly.
C6_ChargeValueExact ==
    phase = "fee ledger" =>
        \A i \in FeeEvents :
            LET e == trace[i]
            IN  IF FeeTokenBefore(e) >= ChargedAmount(e) THEN PaidInFeeToken(e)
                ELSE PaidInBoth(e) /\ ConversionExact(e)

\* C6 amended: a covered charge is (amount, 0) / (0, amount) from the fee token
\* only; otherwise the fee token is drained to 0 and the other token pays the
\* shortfall converted at the current price (shortfall / price in quote,
\* shortfall * price in base), equal in value to the shortfall up to the
\* rounding of that one Decimal operation.
C6_ChargeValueRounded ==
    phase = "fee ledger" =>
        \A i \in FeeEvents :
            LET e == trace[i]
            IN  IF FeeTokenBefore(e) >= ChargedAmount(e) THEN PaidInFeeToken(e)
                ELSE PaidInBoth(e) /\ ConversionRounded(e)

\* the spec's example: fee token base, amount 10, base 4, price 2, quote 100
\* gives base_spent 4 and quote_spent 3
C6_Witness ==
    /\ phase = "fee ledger"
    /\ FeeTokenIsBase
    /\ market.price = Dec(2)
    /\ trace = <<Ev("fee", <<Dec(10), Dec(4), Dec(100), Dec(4), Dec(3)>>)>>
    /\ assets = [base |-> 0, quote |-> Dec(97)]

\* the converted shortfall a charge of fee_amount asks of the other token
ConvertedShortfall(fee_amount, fee_token_balance) ==
    IF FeeTokenIsBase THEN DecDiv(fee_amount - fee_token_balance, market.price)
    ELSE DecMul(fee_amount - fee_token_balance, market.price)

InsufficientFunds(fee_amount, base, quote) ==
    LET fee_token_balance == IF FeeTokenIsBase THEN base ELSE quote
        other_balance == IF FeeTokenIsBase THEN quote ELSE base
    IN  /\ fee_token_balance < fee_amount
        /\ other_balance < ConvertedShortfall(fee_amount, fee_token_balance)

\* C7: a charge fails with the insufficient-funds error exactly when the fee
\* token is below the amount and the other token below the converted
\* shortfall; the failure changes no balance and ends the run (err stays set,
\* nothing handles it).
C7_FailsExactlyWhenInsufficient ==
    phase = "fee ledger" =>
        /\ \A i \in FeeEvents :
               ~InsufficientFunds(trace[i].args[1], trace[i].args[2], trace[i].args[3])
        /\ \A i \in FailedFeeEvents :
               /\ InsufficientFunds(trace[i].args[1], trace[i].args[2], trace[i].args[3])
               /\ assets = [base |-> trace[i].args[2], quote |-> trace[i].args[3]]
               /\ err = "Ran out of funds to pay gas fees!"
        /\ (err # NoError) = (FailedFeeEvents # {})
        /\ trace # <<>> => (FeeEvents # {}) # (FailedFeeEvents # {})

\* a charge that failed although the other token held funds (only too few)
C7_Witness ==
    /\ phase = "fee ledger"
    /\ err = "Ran out of funds to pay gas fees!"
    /\ FailedFeeEvents # {}
    /\ assets.base > 0
    /\ assets.quote > 0

\* C8: the entry of the queried year when it is a key, else the entry of the
\* maximum key; always an entry of the table.
C8_RateForYear ==
    looked_up # NotLookedUp =>
        LET fee_rates == fees_configuration.fee_rates
            year == looked_up.year
        IN  /\ year \in DOMAIN fee_rates => looked_up.fee = fee_rates[year]
            /\ year \notin DOMAIN fee_rates =>
                   \E m \in DOMAIN fee_rates :
                       /\ \A k \in DOMAIN fee_rates : k <= m
                       /\ looked_up.fee = fee_rates[m]
            /\ \E k \in DOMAIN fee_rates : looked_up.fee = fee_rates[k]

\* a year beyond the maximum key of a table with several keys
C8_Witness ==
    /\ looked_up # NotLookedUp
    /\ Cardinality(DOMAIN fees_configuration.fee_rates) > 1
    /\ \A k \in DOMAIN fees_configuration.fee_rates : looked_up.year > k
    /\ looked_up.fee = FeeB


\* ------------------------------------------------------ entering HODL mode
\* float(price) and Decimal(float) keep a price of the model's precision
\* BrokkrStrategyBWithHodl.get_out_of_lp, up to the flag it sets at its end
\* an entry that evens the capital out and keeps the positions
get_out_of_lp_keeping(w, hodl_mode_range) ==
    IF w.err # NoError THEN w
    ELSE IF hodl_mode_range <= 0
    THEN Then(symmetrical_rebalance(w, w.price), LAMBDA w2 : [w2 EXCEPT !.low = 0, !.high = 0])
    ELSE rebalance_and_add_symmetric_liquidity(w, hodl_mode_range)

get_out_of_lp(w, hodl_mode_range) ==
    IF w.err # NoError THEN w
    ELSE IF hodl_mode_range <= 0
    THEN Then(symmetrical_rebalance(pool_remove_all_liquidity(w), w.price), LAMBDA w2 :
              [w2 EXCEPT !.low = 0, !.high = 0])
    ELSE rebalance_and_add_symmetric_liquidity(w, hodl_mode_range)

\* BrokkrStrategyTimeDynamicRanges.go_to_hodl_mode, after it set the timestamp
go_to_hodl_mode(w) ==
    IF w.err # NoError THEN w
    ELSE Then(pool_remove_all_liquidity(w), LAMBDA w1 : [w1 EXCEPT !.low = 0, !.high = 0])

\* ==================================================== the primitives, driven
\* The shared open / close / rebalance primitives and the two HODL entries,
\* called in any order on any bar, each by the policies whose code calls it:
\* D opens custom ranges with explicit maxima and closes single positions,
\* PR withdraws part or all of a position and rebalances symmetrically,
\* AS rebalances asymmetrically, BH and TD rebalance symmetrically and
\* enter their HODL modes.
LedgerPolicies == {"D", "PR", "AS", "BH", "TD"}

MaxOpens == 3
MaxCloses == 2
MaxLedgerBars == 2

LedgerPrices == {Dec(1), Dec(2)}

LedgerHoldings == {Dec(20)}

LedgerBounds == {<<Dec(1) \div 2, Dec(3) \div 2>>, <<Dec(3) \div 2, Dec(3)>>}

LedgerMaxAmounts == {<<None, None>>, <<Some(Dec(4)), Some(Dec(4))>>}

LedgerRanges == {Dec(10)}

LedgerHodlRanges == {Dec(0), Dec(50)}

LedgerFees ==
    {NoFeesConfiguration} \cup
    {FeesConfiguration(token, (EpochYear :> FeeA) @@ (EpochYear + 1 :> FeeB)) :
         token \in {"base", "quote"}}

\* the run starts on the last bar of a year
LedgerStart == StepsPerYear - 1

InitLedger ==
    /\ Idle
    /\ config = <<>>
    /\ policy \in LedgerPolicies
    /\ phase = "primitives"
    /\ fees_configuration \in LedgerFees
    /\ \E base \in LedgerHoldings : assets = [base |-> base, quote |-> 0]
    /\ \E price \in LedgerPrices : market = [price |-> price, timestamp |-> LedgerStart]

Here == World(market.price, market.timestamp)

LedgerFrame == UNCHANGED <<runVars, barVars, ladderVars, extendVars, tracked, looked_up, computed>>

NextBar ==
    /\ err = NoError
    /\ market.timestamp - LedgerStart < MaxLedgerBars
    /\ \E price \in LedgerPrices :
           market' = [price |-> price, timestamp |-> market.timestamp + 1]
    /\ handler' = "bar"
    /\ trace' = <<>>
    /\ UNCHANGED <<runVars, account_status, assets, positions, stats, err, current_range,
                   last_successful_rebalance, hodl_status, rebalances, ladderVars, extendVars, hodlVars,
                   tracked,
                   looked_up, computed>>

Open ==
    /\ err = NoError
    /\ policy \in {"D", "PR"}
    /\ stats.providing_lp_count < MaxOpens
    /\ \E bounds \in LedgerBounds, maxes \in LedgerMaxAmounts :
           Commit(add_liquidity_custom_range(Here, bounds[1], bounds[2], maxes[1], maxes[2], "NONE"))
    /\ handler' = "add_liquidity_custom_range"
    /\ LedgerFrame
    /\ UNCHANGED hodlVars

Close ==
    /\ err = NoError
    /\ policy \in {"D", "PR"}
    /\ stats.withdrawing_lp_count < MaxCloses
    /\ \E i \in 1..Len(positions) :
           \E liquidity \in {None, Some(positions[i].liquidity \div 2)} :
               Commit(remove_liquidity(Here, KeyOf(positions[i]), liquidity))
    /\ handler' = "remove_liquidity"
    /\ LedgerFrame
    /\ UNCHANGED hodlVars

RebalanceSymmetric ==
    /\ err = NoError
    /\ policy \in {"PR", "BH", "TD"}
    /\ stats.providing_lp_count < MaxOpens
    /\ \E range \in LedgerRanges : Commit(rebalance_and_add_symmetric_liquidity(Here, range))
    /\ handler' = "rebalance_and_add_symmetric_liquidity"
    /\ LedgerFrame
    /\ UNCHANGED hodlVars

RebalanceAsymmetric ==
    /\ err = NoError
    /\ policy \in {"AS"}
    /\ stats.providing_lp_count < MaxOpens
    /\ \E range \in LedgerRanges, swap \in {"buy", "sell", "none"} :
           Commit(rebalance_and_add_asymmetric_liquidity(Here, range, range, swap))
    /\ handler' = "rebalance_and_add_asymmetric_liquidity"
    /\ LedgerFrame
    /\ UNCHANGED hodlVars

GetOutOfLp ==
    /\ err = NoError
    /\ policy \in {"BH"}
    /\ ~is_hodl_mode_active
    /\ stats.providing_lp_count < MaxOpens
    /\ \E hodl_mode_range \in LedgerHodlRanges :
           \E w \in {get_out_of_lp(Here, hodl_mode_range)} :
               /\ Commit(w)
               /\ is_hodl_mode_active' = (w.err = NoError)
    /\ handler' = "get_out_of_lp"
    /\ LedgerFrame
    /\ UNCHANGED <<hodl_mode_start_timestamp, hodl_entered, hodl_left, rebalanced, price_series,
                 last_active_position_start_price, is_enough_data_to_start_flag>>

GoToHodlMode ==
    /\ err = NoError
    /\ policy \in {"TD"}
    /\ hodl_mode_start_timestamp = None
    /\ hodl_mode_start_timestamp' = Some(market.timestamp)
    /\ Commit(go_to_hodl_mode(Here))
    /\ handler' = "go_to_hodl_mode"
    /\ LedgerFrame
    /\ UNCHANGED <<is_hodl_mode_active, hodl_entered, hodl_left, rebalanced, price_series,
                 last_active_position_start_price, is_enough_data_to_start_flag>>

NextLedger ==
    \/ NextBar
    \/ Open
    \/ Close
    \/ RebalanceSymmetric
    \/ RebalanceAsymmetric
    \/ GetOutOfLp
    \/ GoToHodlMode

SpecLedger == InitLedger /\ [][NextLedger]_vars


\* ------------------------------------------------- claims on the primitives
EventsOf(tr, op) == {i \in 1..Len(tr) : tr[i].op = op}

RebalancePrimitives ==
    {"rebalance_and_add_symmetric_liquidity", "rebalance_and_add_asymmetric_liquidity"}

\* C3: every completed call of the rebalance primitive, symmetric or
\* asymmetric, raises rebalances_count by exactly one, whatever the number of
\* positions open at the call.
C3_RebalanceCountsOnce ==
    [][(handler' \in RebalancePrimitives /\ err' = NoError)
           => stats'.rebalances_count = stats.rebalances_count + 1]_vars

\* the symmetric primitive alone does count once
C3_SymmetricCountsOnce ==
    [][(handler' = "rebalance_and_add_symmetric_liquidity" /\ err' = NoError)
           => stats'.rebalances_count = stats.rebalances_count + 1]_vars

RemovalFee == get_fee_rate_for_year(YearOf(market.timestamp)).removing_liquidity

ProvidingFee == get_fee_rate_for_year(YearOf(market.timestamp)).liquidity_providing

\* a close of the pool at index i of the trace is followed by the charge of
\* one removal fee
RemovalFeeCharged(tr, i) ==
    /\ i < Len(tr)
    /\ tr[i + 1].op = "fee"
    /\ tr[i + 1].args[1] = RemovalFee

\* C4: every close a handler makes at the pool, the closes of the HODL entries
\* included, raises withdrawing_lp_count by one and, with a fee configuration
\* bound, is charged one removal fee.
C4_EveryCloseCountedAndCharged ==
    [][err' = NoError =>
           /\ stats'.withdrawing_lp_count - stats.withdrawing_lp_count
                  = Cardinality(EventsOf(trace', "remove_liquidity"))
           /\ fees_configuration.bound =>
                  \A i \in EventsOf(trace', "remove_liquidity") : RemovalFeeCharged(trace', i)]_vars

\* the open whose pool call is at index i of the trace: the call, then (with
\* fees bound) one charge of the providing fee of the bar's year, then the
\* pool call with the balances the charge left and the maxima less the fee
OpenCharged(tr, i) ==
    LET add == tr[i]
        k == IF fees_configuration.bound THEN 2 ELSE 1
    IN  /\ i > k
        /\ tr[i - k].op = "open"
        /\ tr[i - k].args[1] = add.args[1]
        /\ tr[i - k].args[2] = add.args[2]
        /\ IF fees_configuration.bound
           THEN LET fee == tr[i - 1]
                    call == tr[i - 2]
                IN  /\ fee.op = "fee"
                    /\ ChargedAmount(fee) = ProvidingFee
                    /\ add.args[5] = BaseBefore(fee) - BaseSpent(fee)
                    /\ add.args[6] = QuoteBefore(fee) - QuoteSpent(fee)
                    /\ add.args[3] = IF call.args[3] = None THEN None
                                     ELSE Some(call.args[3][1] - BaseSpent(fee))
                    /\ add.args[4] = IF call.args[4] = None THEN None
                                     ELSE Some(call.args[4][1] - QuoteSpent(fee))
           ELSE /\ add.args[3] = tr[i - 1].args[3]
                /\ add.args[4] = tr[i - 1].args[4]

\* C5: every open raises providing_lp_count by one; with a fee configuration
\* bound it is charged exactly one providing fee, at the rate of the year of
\* the bar, before the pool's add_liquidity is called, and the explicit
\* maxima offered to the pool are less by what the fee took of each token.
C5_EveryOpenCountedAndCharged ==
    [][/\ stats'.providing_lp_count - stats.providing_lp_count
              = Cardinality(EventsOf(trace', "add_liquidity"))
       /\ \A i \in EventsOf(trace', "add_liquidity") : OpenCharged(trace', i)
       /\ fees_configuration.bound =>
              Cardinality(EventsOf(trace', "fee") \cap {i \in 1..Len(trace') :
                              i > 1 /\ trace'[i - 1].op = "open"})
                  = Cardinality(EventsOf(trace', "add_liquidity"))]_vars

\* an open in the second year, with explicit maxima, its fee taken from base
C5_Witness ==
    /\ handler = "add_liquidity_custom_range"
    /\ fees_configuration.bound
    /\ YearOf(market.timestamp) = EpochYear + 1
    /\ \E i \in EventsOf(trace, "add_liquidity") :
           /\ trace[i].args[3] # None
           /\ BaseSpent(trace[i - 1]) > 0

\* ================================================= ladder policies B and C
\* config: [ranges, max_rebalances, min_time_between_rebalances], the last in
\* bar steps.  day_to_rebalance_count maps day keys to counts.
SetKey(f, key, value) == [k \in DOMAIN f \cup {key} |-> IF k = key THEN value ELSE f[k]]

GetKey(f, key, default) == IF key \in DOMAIN f THEN f[key] ELSE default

RECURSIVE SumTo(_, _)
SumTo(seq, i) == IF i = 0 THEN 0 ELSE seq[i] + SumTo(seq, i - 1)

\* BrokkrStrategy.is_out_of_range, on the latest account status
is_out_of_range(status) == ~status.quote_in_position \/ ~status.base_in_position

\* BrokkrStrategyC.is_older_than
is_older_than(historical_timestamp, current_timestamp, minutes) ==
    current_timestamp - historical_timestamp >= minutes

\* a gate that lets every bar through
can_rebalance_always(w, status) == TRUE

\* can_rebalance of strategy B and its override in strategy C
can_rebalance(w, status) ==
    IF policy = "C"
    THEN is_older_than(w.last, status.timestamp, config.min_time_between_rebalances)
    ELSE TRUE

\* a tier walk that still picks a tier whose cumulative cap is reached
tier_for_rebalance_inclusive(rebalanced_count) ==
    LET fits == {i \in 1..Len(config.ranges) : rebalanced_count <= SumTo(config.max_rebalances, i)}
    IN  IF fits = {} THEN 0 ELSE MinOf(fits)

\* a tier walk that picks the last tier whose cumulative cap exceeds the count
tier_for_rebalance_widest(rebalanced_count) ==
    LET fits == {i \in 1..Len(config.ranges) : rebalanced_count < SumTo(config.max_rebalances, i)}
    IN  IF fits = {} THEN 0 ELSE MaxOf(fits)

\* the loop of on_rebalance_needed: the index of the first tier whose
\* cumulative cap exceeds the day's count, 0 when there is none
tier_for_rebalance(rebalanced_count) ==
    LET fits == {i \in 1..Len(config.ranges) : rebalanced_count < SumTo(config.max_rebalances, i)}
    IN  IF fits = {} THEN 0 ELSE MinOf(fits)

\* The ladder handlers work on [w, count, since, did]: the world, the day
\* counters, max_range_active_since and the kind of rebalance done.
Ladder(w, count, since, did) == [w |-> w, count |-> count, since |-> since, did |-> did]

on_rebalance_needed(l, timestamp) ==
    LET key == timestamp_to_key(timestamp)
        rebalanced_count == GetKey(l.count, key, 0)
        count0 == SetKey(l.count, key, rebalanced_count)
        tier == tier_for_rebalance(rebalanced_count)
    IN  IF tier = 0 THEN Ladder(l.w, count0, l.since, "none")
        ELSE
        LET range_for_rebalance == config.ranges[tier]
        IN  Let(rebalance_and_add_symmetric_liquidity(l.w, range_for_rebalance), LAMBDA w1 :
                IF w1.err # NoError THEN Ladder(w1, count0, l.since, "none")
                ELSE Ladder(w1, SetKey(count0, key, rebalanced_count + 1),
                            IF range_for_rebalance = config.ranges[Len(config.ranges)]
                            THEN timestamp ELSE 0,
                            "tier"))

\* a handler that looks at the position first and at the mark second
handle_current_timestamp_range_first(l, status) ==
    LET current_timestamp == status.timestamp
        widest_range_active_since_1d ==
            l.since > 0 /\ is_one_day_or_older(l.since, current_timestamp)
    IN  IF is_out_of_range(status) THEN on_rebalance_needed(l, current_timestamp)
        ELSE IF widest_range_active_since_1d
        THEN Let(rebalance_and_add_symmetric_liquidity(l.w, config.ranges[1]), LAMBDA w1 :
                 IF w1.err # NoError THEN Ladder(w1, l.count, l.since, "none")
                 ELSE Ladder(w1, SetKey(l.count, timestamp_to_key(current_timestamp), 0), 0, "force"))
        ELSE l

handle_current_timestamp(l, status) ==
    LET current_timestamp == status.timestamp
        widest_range_active_since_1d ==
            l.since > 0 /\ is_one_day_or_older(l.since, current_timestamp)
    IN  IF widest_range_active_since_1d
        THEN Let(rebalance_and_add_symmetric_liquidity(l.w, config.ranges[1]), LAMBDA w1 :
                 IF w1.err # NoError THEN Ladder(w1, l.count, l.since, "none")
                 ELSE Ladder(w1, SetKey(l.count, timestamp_to_key(current_timestamp), 0), 0, "force"))
        ELSE IF is_out_of_range(status) THEN on_rebalance_needed(l, current_timestamp)
        ELSE l

\* BrokkrStrategyB.on_bar_custom
on_bar_custom(l, status) ==
    IF status.len = 0 \/ ~can_rebalance(l.w, status) THEN l
    ELSE handle_current_timestamp(l, status)

\* the account status the driver appends after a bar; len is 0 for an empty
\* list and 1 for any other
AccountStatus(timestamp, pos, price) ==
    [len |-> 1, timestamp |-> timestamp,
     base_in_position |-> base_in_position(pos, price),
     quote_in_position |-> quote_in_position(pos, price)]

LadderPrices == {Dec(1), Dec(2)}

LadderHoldings == {Dec(20)}

LadderConfigs ==
    {[ranges |-> <<Dec(2)>>, max_rebalances |-> <<1>>],
     [ranges |-> <<Dec(2), Dec(5)>>, max_rebalances |-> <<1, 1>>],
     [ranges |-> <<Dec(2), Dec(5)>>, max_rebalances |-> <<0, 2>>]}

LadderCooldowns == {1, 3}

LadderFees == {NoFeesConfiguration, FeesConfiguration("base", (EpochYear :> FeeA))}

InitLadder ==
    /\ Idle
    /\ phase = "constructed"
    /\ policy \in {"B", "C"}
    /\ \E c \in LadderConfigs, minutes \in LadderCooldowns :
           /\ policy = "B" => minutes = 1
           /\ config = [ranges |-> c.ranges, max_rebalances |-> c.max_rebalances,
                        min_time_between_rebalances |-> minutes]
    /\ fees_configuration \in LadderFees
    /\ \E base \in LadderHoldings : assets = [base |-> base, quote |-> 0]
    /\ \E price \in LadderPrices : market = [price |-> price, timestamp |-> 1]

\* BrokkrStrategy.initialize with initialize_custom of strategy B
Initialize ==
    /\ phase = "constructed"
    /\ phase' = "running"
    /\ Commit(rebalance_and_add_symmetric_liquidity(Here, config.ranges[1]))
    /\ handler' = "initialize"
    /\ widest_range_since' = IF err' = NoError /\ Len(config.ranges) = 1
                             THEN market.timestamp ELSE 0
    /\ UNCHANGED <<policy, config, fees_configuration, barVars, day_to_rebalance_count,
                   max_range_active_since, performed, extendVars, hodlVars, tracked, looked_up,
                   computed>>

\* the history of a day key: rebalances done under it, forced ones among
\* them, and tier rebalances since the key's last forced one
NoRebalances == [total |-> 0, forced |-> 0, tiers |-> 0]

Performed(history, key, did) ==
    LET h == GetKey(history, key, NoRebalances)
    IN  IF did = "tier"
        THEN SetKey(history, key, [h EXCEPT !.total = @ + 1, !.tiers = @ + 1])
        ELSE IF did = "force"
        THEN SetKey(history, key, [h EXCEPT !.total = @ + 1, !.forced = @ + 1, !.tiers = 0])
        ELSE history

\* One bar: the driver sets the market status of the row (the first bar is the
\* row initialize saw), on_bar runs, the driver appends the account status.
OnBar ==
    /\ phase = "running"
    /\ err = NoError
    /\ \E price \in LadderPrices, dt \in {1, 2} :
           LET first == account_status.len = 0
               row == IF first THEN market
                      ELSE [price |-> price, timestamp |-> market.timestamp + dt]
           IN  \E l \in {on_bar_custom(Ladder(World(row.price, row.timestamp),
                                              day_to_rebalance_count,
                                              max_range_active_since, "none"),
                                       account_status)} :
               /\ row.timestamp <= MaxTime
               /\ market' = row
               /\ Commit(l.w)
               /\ day_to_rebalance_count' = l.count
               /\ max_range_active_since' = l.since
               /\ performed' = Performed(performed, timestamp_to_key(account_status.timestamp), l.did)
               /\ widest_range_since' =
                      IF l.did = "none" THEN widest_range_since
                      ELSE IF l.w.pos[1].range # Some(config.ranges[Len(config.ranges)]) THEN 0
                      ELSE IF widest_range_since > 0 THEN widest_range_since
                      ELSE row.timestamp
               /\ UNCHANGED extendVars
               /\ account_status' = AccountStatus(row.timestamp, l.w.pos, row.price)
               /\ handler' = IF l.did = "none" THEN "on_bar" ELSE l.did
    /\ UNCHANGED <<runVars, hodlVars, tracked, looked_up, computed>>

NextLadder == Initialize \/ OnBar

SpecLadder == InitLadder /\ [][NextLadder]_vars


\* --------------------------------------------------- claims on the ladder
SumCaps == SumTo(config.max_rebalances, Len(config.max_rebalances))

C2_CooldownBetweenRebalances ==
    [][(policy = "C" /\ phase = "running" /\ trace' # <<>>)
           => /\ market'.timestamp - last_successful_rebalance
                     >= config.min_time_between_rebalances
              /\ last_successful_rebalance' # last_successful_rebalance
                     => /\ last_successful_rebalance' = market'.timestamp
                        /\ last_successful_rebalance > 0]_vars

\* strategy C rebalanced on a bar, under a cooldown longer than the two bars a
\* position needs to be seen out of range
C2_Witness ==
    /\ policy = "C"
    /\ phase = "running"
    /\ config.min_time_between_rebalances = 3
    /\ handler \in {"tier", "force"}
    /\ stats.rebalances_count >= 2
    /\ last_successful_rebalance = market.timestamp

\* ================================================ partial-rebalance policy
\* config: [range_in_percentage, division, division_threshold_percentage].
\* tracked (active_partial_rebalance_positions_dict) is a sequence of
\* [position_info, division_price_points_up, division_price_points_down,
\*  init_price, last_partial_rebalance], in the dict's insertion order.
MaxPartialBars == 6

PriceThreshold(index, price, rebalance_direction) ==
    [index |-> index, price |-> price, rebalance_direction |-> rebalance_direction]

PartialRebalancePosition(division_price_points_up, division_price_points_down, init_price, position_info) ==
    [position_info |-> position_info,
     division_price_points_up |-> division_price_points_up,
     division_price_points_down |-> division_price_points_down,
     init_price |-> init_price,
     last_partial_rebalance |-> None]

TrackedIndex(dict, position_info) ==
    IF \E i \in 1..Len(dict) : dict[i].position_info = position_info
    THEN CHOOSE i \in 1..Len(dict) : dict[i].position_info = position_info
    ELSE 0

\* dict[position_info] = entry
SetTracked(dict, entry) ==
    LET i == TrackedIndex(dict, entry.position_info)
    IN  IF i = 0 THEN Append(dict, entry) ELSE [dict EXCEPT ![i] = entry]

\* del dict[position_info]
DelTracked(dict, position_info) == RemoveAt(dict, TrackedIndex(dict, position_info))

LiquidityOf(pos, position_info) ==
    LET i == IndexOf(pos, position_info)
    IN  IF i = 0 THEN 0 ELSE pos[i].liquidity

\* the partial-rebalance handlers work on [w, dict]
Partial(w, dict) == [w |-> w, dict |-> dict]

\* lower thresholds as far below the price as the upper ones are above it
calculate_division_price_points_mirrored(price, divisions, division_threshold_percentage) ==
    LET step == DecMul(PERCENT_TO_DECIMAL, division_threshold_percentage)
    IN  <<[d \in 1..divisions |-> PriceThreshold(d - 1, DecMul(price, ONE + d * step), "UP")],
          [d \in 1..divisions |-> PriceThreshold(d - 1, DecMul(price, ONE - d * step), "DOWN")]>>

\* divisions are numbered from 0 in a threshold's index
calculate_division_price_points(price, divisions, division_threshold_percentage) ==
    LET step == DecMul(PERCENT_TO_DECIMAL, division_threshold_percentage)
    IN  <<[d \in 1..divisions |-> PriceThreshold(d - 1, DecMul(price, ONE + d * step), "UP")],
          [d \in 1..divisions |-> PriceThreshold(d - 1, DecDiv(price, ONE + d * step), "DOWN")]>>

get_surpassed_threshold(price, division_price_points_up, division_price_points_down) ==
    IF price >= division_price_points_up[1].price
    THEN LET n == Len(division_price_points_up)
             hits == {i \in 1..n : /\ price >= division_price_points_up[i].price
                                   /\ (i = n \/ price < division_price_points_up[i + 1].price)}
         IN  Some(division_price_points_up[MinOf(hits)])
    ELSE IF price <= division_price_points_down[1].price
    THEN LET n == Len(division_price_points_down)
             hits == {i \in 1..n : /\ price <= division_price_points_down[i].price
                                   /\ (i = n \/ price > division_price_points_down[i + 1].price)}
         IN  Some(division_price_points_down[MinOf(hits)])
    ELSE None

\* a fraction that counts the thresholds from 0
calculate_withdraw_percent_decimal_from_zero(threshold_index) ==
    DecDiv(Dec(threshold_index), Dec(config.division))

calculate_withdraw_percent_decimal(threshold_index) ==
    DecDiv(ONE + Dec(threshold_index), Dec(config.division))

\* int(Decimal(position.liquidity) * withdraw_percent_decimal)
liquidity_withdraw_amount(liquidity, withdraw_percent_decimal) ==
    (liquidity * withdraw_percent_decimal) \div Scale

\* a withdrawal that leaves the dict as it was
withdraw_keeping(l, position_info, amount, full_withdrawal) ==
    Let(remove_liquidity(l.w, position_info, IF full_withdrawal THEN None ELSE Some(amount)),
        LAMBDA w1 : Partial(w1, l.dict))

withdraw(l, position_info, amount, full_withdrawal) ==
    Let(remove_liquidity(l.w, position_info, IF full_withdrawal THEN None ELSE Some(amount)),
        LAMBDA w1 :
            IF w1.err # NoError THEN Partial(w1, l.dict)
            ELSE Partial(w1, IF full_withdrawal THEN DelTracked(l.dict, position_info)
                             ELSE l.dict))

\* a check that is never met
positions_limit_never_reached(count) == FALSE

\* the check that sends process_active_positions to the collapse
positions_limit_reached(count) == count = config.division

\* the trace entry "withdrawn" records the threshold index, the liquidity
\* found, the fraction, the amount, and what the withdrawal left: liquidity,
\* position in the pool, position tracked
partial_rebalance_liquidity(l, entry, price_threshold, position_info) ==
    LET current_price == l.w.price
        liquidity == LiquidityOf(l.w.pos, position_info)
        withdraw_percent_decimal == calculate_withdraw_percent_decimal(price_threshold.index)
        amount == liquidity_withdraw_amount(liquidity, withdraw_percent_decimal)
    IN  Let(withdraw(l, position_info, amount, withdraw_percent_decimal = ONE), LAMBDA l1 :
        IF l1.w.err # NoError THEN l1
        ELSE
        LET i == TrackedIndex(l1.dict, position_info)
            dict1 == IF i = 0 THEN l1.dict
                     ELSE [l1.dict EXCEPT ![i].last_partial_rebalance =
                               Some([threshold |-> price_threshold,
                                     withdraw_percent_decimal |-> withdraw_percent_decimal])]
            w1 == Log(l1.w, "withdrawn",
                      <<price_threshold.index, liquidity, withdraw_percent_decimal, amount,
                        LiquidityOf(l1.w.pos, position_info),
                        IndexOf(l1.w.pos, position_info) # 0, i # 0>>)
            w2 == symmetrical_rebalance(w1, current_price)
        IN  Let(add_liquidity(w2, config.range_in_percentage, None, None, "NONE", current_price),
                LAMBDA w3 :
                    IF w3.err # NoError THEN Partial(w3, dict1)
                    ELSE
                    LET points == calculate_division_price_points(
                                      current_price, config.division,
                                      config.division_threshold_percentage)
                    IN  Partial(w3, SetTracked(dict1,
                                        PartialRebalancePosition(
                                            points[1], points[2], current_price,
                                            PositionInfo(w3.ret[1], w3.ret[2]))))))

create_new_symmetric_position(l, init_price) ==
    Let(rebalance_and_add_symmetric_liquidity(l.w, config.range_in_percentage), LAMBDA w1 :
        IF w1.err # NoError THEN Partial(w1, l.dict)
        ELSE
        LET points == calculate_division_price_points(init_price, config.division,
                                                      config.division_threshold_percentage)
        IN  Partial(w1, SetTracked(l.dict,
                            PartialRebalancePosition(points[1], points[2], init_price,
                                                     PositionInfo(w1.ret[1], w1.ret[2])))))

RECURSIVE withdraw_each(_, _)
withdraw_each(l, keys) ==
    IF keys = <<>> \/ l.w.err # NoError THEN l
    ELSE withdraw_each(withdraw(l, Head(keys), 0 - 1, TRUE), Tail(keys))

collapse_positions_into_single(l) ==
    Let(withdraw_each(l, [i \in 1..Len(l.dict) |-> l.dict[i].position_info]), LAMBDA l1 :
        IF l1.w.err # NoError THEN l1
        ELSE create_new_symmetric_position(l1, l1.w.price))

\* the loop of process_active_positions over list(dict), from keys on
RECURSIVE process_each(_, _, _)
process_each(l, keys, current_price) ==
    IF keys = <<>> \/ l.w.err # NoError THEN l
    ELSE
    LET position_info == Head(keys)
        i == TrackedIndex(l.dict, position_info)
    IN  IF i = 0 THEN Partial(Raise(l.w, "KeyError"), l.dict)
        ELSE
        LET entry == l.dict[i]
            price_threshold == get_surpassed_threshold(current_price,
                                                       entry.division_price_points_up,
                                                       entry.division_price_points_down)
            last_partial_rebalance == entry.last_partial_rebalance
        IN  IF /\ price_threshold # None
               /\ (last_partial_rebalance = None
                   \/ last_partial_rebalance[1].threshold # price_threshold[1])
            THEN IF positions_limit_reached(Len(l.dict))
                 THEN collapse_positions_into_single(l)
                 ELSE process_each(partial_rebalance_liquidity(l, entry, price_threshold[1],
                                                               position_info),
                                   Tail(keys), current_price)
            ELSE l

process_active_positions(l, current_price) ==
    process_each(l, [i \in 1..Len(l.dict) |-> l.dict[i].position_info], current_price)

PartialPrices == {Dec(1) + (k * Scale) \div 25 : k \in {0 - 2, 0, 1, 2, 4}}

PartialHoldings == {Dec(20)}

PartialRanges == {Dec(10)}

PartialDivisions == {2, 3}

PartialFees == {NoFeesConfiguration, FeesConfiguration("base", (EpochYear :> FeeA))}

InitPartial ==
    /\ Idle
    /\ phase = "constructed"
    /\ policy = "PR"
    /\ \E range \in PartialRanges, division \in PartialDivisions :
           config = [range_in_percentage |-> range, division |-> division,
                     division_threshold_percentage |-> DecDiv(range, Dec(division))]
    /\ fees_configuration \in PartialFees
    /\ \E base \in PartialHoldings : assets = [base |-> base, quote |-> 0]
    /\ \E price \in PartialPrices : market = [price |-> price, timestamp |-> 1]

\* BrokkrStrategy.initialize with initialize_custom of the partial-rebalance strategy
InitializePartial ==
    /\ phase = "constructed"
    /\ phase' = "running"
    /\ \E l \in {create_new_symmetric_position(Partial(Here, tracked), market.price)} :
           Commit(l.w) /\ tracked' = l.dict
    /\ handler' = "initialize"
    /\ UNCHANGED <<policy, config, fees_configuration, barVars, ladderVars, extendVars, hodlVars, looked_up, computed>>

\* one bar of the partial-rebalance strategy, the driver's part as in OnBar
OnBarPartial ==
    /\ phase = "running"
    /\ err = NoError
    /\ \E price \in PartialPrices :
           LET first == account_status.len = 0
               row == IF first THEN market
                      ELSE [price |-> price, timestamp |-> market.timestamp + 1]
               l0 == Partial(World(row.price, row.timestamp), tracked)
           IN  \E l \in {IF first THEN l0 ELSE process_active_positions(l0, row.price)} :
               /\ row.timestamp <= MaxPartialBars
               /\ market' = row
               /\ Commit(l.w)
               /\ tracked' = l.dict
               /\ account_status' = AccountStatus(row.timestamp, l.w.pos, row.price)
    /\ handler' = "on_bar"
    /\ UNCHANGED <<runVars, ladderVars, extendVars, hodlVars, looked_up, computed>>

NextPartial == InitializePartial \/ OnBarPartial

SpecPartial == InitPartial /\ [][NextPartial]_vars


\* ------------------------------------- claims on the partial-rebalance policy
\* C9: the number of positions tracked at once never exceeds division.
C9_TrackedWithinDivision ==
    policy = "PR" /\ phase = "running" => Len(tracked) <= config.division

\* division positions tracked at once, each still open in the pool
C9_Witness ==
    /\ policy = "PR"
    /\ phase = "running"
    /\ Len(tracked) = config.division
    /\ Len(tracked) >= 2
    /\ \A i \in 1..Len(tracked) : LiquidityOf(positions, tracked[i].position_info) > 0

\* what a "withdrawn" entry of the trace holds
WithdrawnIndex(e) == e.args[1]

WithdrawnFrom(e) == e.args[2]

WithdrawnFraction(e) == e.args[3]

WithdrawnAmount(e) == IF e.args[3] = ONE THEN e.args[2] ELSE e.args[4]

LiquidityLeft(e) == e.args[5]

StillOpen(e) == e.args[6]

StillTracked(e) == e.args[7]

\* below fraction 1 the position stays open, with liquidity, and tracked; at
\* fraction 1, which is index division - 1, it leaves the pool and the dict
WithdrawalOutcome(e) ==
    /\ WithdrawnIndex(e) \in 0..(config.division - 1)
    /\ (WithdrawnFraction(e) = ONE) = (WithdrawnIndex(e) = config.division - 1)
    /\ LiquidityLeft(e) = WithdrawnFrom(e) - WithdrawnAmount(e)
    /\ WithdrawnFraction(e) < ONE =>
           /\ LiquidityLeft(e) > 0
           /\ StillOpen(e)
           /\ StillTracked(e)
    /\ WithdrawnFraction(e) = ONE =>
           /\ LiquidityLeft(e) = 0
           /\ ~StillOpen(e)
           /\ ~StillTracked(e)

FractionsIncrease ==
    \A i \in 0..(config.division - 2) :
        calculate_withdraw_percent_decimal(i) < calculate_withdraw_percent_decimal(i + 1)

\* C10 as stated: the liquidity withdrawn at threshold index i is (i+1)/division
\* of the position's liquidity, the fractions increase with i, and the
\* withdrawal leaves the position as its fraction says.
C10_WithdrawsExactFraction ==
    policy = "PR" /\ phase = "running" =>
        /\ FractionsIncrease
        /\ \A j \in EventsOf(trace, "withdrawn") :
               /\ WithdrawnAmount(trace[j]) * config.division
                      = WithdrawnFrom(trace[j]) * (WithdrawnIndex(trace[j]) + 1)
               /\ WithdrawalOutcome(trace[j])

\* C10 amended: the liquidity withdrawn at threshold index i is the whole
\* number int(liquidity * f), f the Decimal quotient (i+1)/division, so it
\* is (i+1)/division of the liquidity up to the rounding of f and the
\* truncation to a whole amount; the fractions increase with i, and the
\* withdrawal leaves the position as its fraction says.
C10_WithdrawsTruncatedFraction ==
    policy = "PR" /\ phase = "running" =>
        /\ FractionsIncrease
        /\ \A j \in EventsOf(trace, "withdrawn") :
               LET e == trace[j]
                   f == WithdrawnFraction(e)
               IN  /\ 2 * Abs(f * config.division - Dec(WithdrawnIndex(e) + 1)) <= config.division
                   /\ WithdrawnAmount(e) = (WithdrawnFrom(e) * f) \div Scale
                   /\ 2 * Abs(WithdrawnAmount(e) * config.division * Scale
                                  - WithdrawnFrom(e) * Dec(WithdrawnIndex(e) + 1))
                          <= WithdrawnFrom(e) * config.division + 2 * config.division * Scale
                   /\ j < Len(trace)
                   /\ trace[j - 1].op \in {"fee", "remove_liquidity"}
                   /\ WithdrawalOutcome(e)

\* a bar with a partial withdrawal and, of another position, a full one
C10_Witness ==
    /\ policy = "PR"
    /\ phase = "running"
    /\ \E j \in EventsOf(trace, "withdrawn") :
           WithdrawnFraction(trace[j]) < ONE /\ LiquidityLeft(trace[j]) > 0
    /\ \E j \in EventsOf(trace, "withdrawn") :
           WithdrawnFraction(trace[j]) = ONE /\ ~StillTracked(trace[j])


\* ============================================== strategy B with HODL mode
\* config: [ranges, max_rebalances, min_time_between_rebalances,
\*          out_of_range_threshold_up, out_of_range_threshold_down,
\*          hodl_configuration], the hodl_configuration a HodlModeConfiguration
\* with its hours and timedeltas in bar steps.
MaxHodlBars == 7

PricePoint(timestamp, price) == [timestamp |-> timestamp, price |-> price]

get_price_change_in_percentage(price_before, price_now) ==
    IF price_before = 0 \/ price_now = 0 THEN 0
    ELSE DecMul(DecDiv(price_now - price_before, price_before), Dec(100))

\* price_series[from_timestamp:now] is a label slice, both ends included
get_max_price_change_in_past_period(series, now, period) ==
    LET from_timestamp == now - period
        prices_in_range == {series[i].price : i \in {j \in 1..Len(series) :
                                /\ series[j].timestamp >= from_timestamp
                                /\ series[j].timestamp <= now}}
        highest_price == MaxOf(prices_in_range)
        lowest_price == MinOf(prices_in_range)
    IN  Abs(get_price_change_in_percentage(highest_price, lowest_price))

\* a window of prices that never shows a movement
find_highest_price_movement_flat(prices_for_returning_window) == 0

\* HodlModeStatus.find_highest_price_movement
find_highest_price_movement(prices_for_returning_window) ==
    LET prices == {prices_for_returning_window[i].price :
                       i \in 1..Len(prices_for_returning_window)}
        min_price == MinOf(prices)
        max_price == MaxOf(prices)
    IN  DecMul(DecDiv(max_price - min_price, min_price), Dec(100))

should_go_into_hodl_due_to_price_change(series, current_timestamp) ==
    get_max_price_change_in_past_period(
        series, current_timestamp, config.hodl_configuration.price_movement_period_in_hours)
      > config.hodl_configuration.max_price_change_per_period_in_percentage

max_rebalances_reached(current_timestamp, timestamps, max_rebalances_count, max_rebalances_window) ==
    LET oldest_allowed_timestamp == current_timestamp - max_rebalances_window
        eligible_rebalances == {i \in 1..Len(timestamps) : timestamps[i] >= oldest_allowed_timestamp}
    IN  Cardinality(eligible_rebalances) >= max_rebalances_count

\* a check of the rebalances that is always met
should_go_into_hodl_due_to_max_rebalances_unset(status, current_timestamp) == TRUE

should_go_into_hodl_due_to_max_rebalances(status, current_timestamp) ==
    LET count == config.hodl_configuration.max_rebalances_count
        window == config.hodl_configuration.max_rebalances_window
    IN  IF count = None \/ window = None THEN TRUE
        ELSE \/ max_rebalances_reached(current_timestamp, status.rebalances_up, count[1], window[1])
             \/ max_rebalances_reached(current_timestamp, status.rebalances_down, count[1], window[1])

should_get_out_of_lp(status, series, current_timestamp) ==
    /\ should_go_into_hodl_due_to_price_change(series, current_timestamp)
    /\ should_go_into_hodl_due_to_max_rebalances(status, current_timestamp)

\* a check that asks for a displacement beyond the threshold
position_range_threshold_reached_beyond(position, out_of_range_threshold_up, out_of_range_threshold_down, position_start_price, current_price) ==
    LET lower_price == position[1]
        upper_price == position[2]
        position_mid_price_twice == IF position_start_price = None THEN lower_price + upper_price
                                    ELSE 2 * position_start_price[1]
    IN  IF \/ (Dec(100) > out_of_range_threshold_up /\ out_of_range_threshold_up < 0)
           \/ (Dec(100) > out_of_range_threshold_down /\ out_of_range_threshold_down < 0)
        THEN [raised |-> TRUE, value |-> FALSE]
        ELSE IF position_mid_price_twice = 2 * current_price
        THEN [raised |-> FALSE, value |-> FALSE]
        ELSE IF current_price < lower_price \/ current_price > upper_price
        THEN [raised |-> FALSE, value |-> TRUE]
        ELSE IF 2 * current_price > position_mid_price_twice
        THEN [raised |-> FALSE,
              value |-> (2 * current_price - position_mid_price_twice) * Dec(100)
                          > out_of_range_threshold_up * (2 * upper_price - position_mid_price_twice)]
        ELSE [raised |-> FALSE,
              value |-> (position_mid_price_twice - 2 * current_price) * Dec(100)
                          > out_of_range_threshold_down * (position_mid_price_twice - 2 * lower_price)]

\* BrokkrStrategy.position_range_threshold_reached: whether the check raised
\* and, if not, what it returned.  The mid price is kept doubled and the
\* quotients are compared by cross-multiplying.
position_range_threshold_reached(position, out_of_range_threshold_up, out_of_range_threshold_down, position_start_price, current_price) ==
    LET lower_price == position[1]
        upper_price == position[2]
        position_mid_price_twice == IF position_start_price = None THEN lower_price + upper_price
                                    ELSE 2 * position_start_price[1]
    IN  IF \/ (Dec(100) > out_of_range_threshold_up /\ out_of_range_threshold_up < 0)
           \/ (Dec(100) > out_of_range_threshold_down /\ out_of_range_threshold_down < 0)
        THEN [raised |-> TRUE, value |-> FALSE]
        ELSE IF position_mid_price_twice = 2 * current_price
        THEN [raised |-> FALSE, value |-> FALSE]
        ELSE IF current_price < lower_price \/ current_price > upper_price
        THEN [raised |-> FALSE, value |-> TRUE]
        ELSE IF 2 * current_price > position_mid_price_twice
        THEN [raised |-> FALSE,
              value |-> (2 * current_price - position_mid_price_twice) * Dec(100)
                          >= out_of_range_threshold_up * (2 * upper_price - position_mid_price_twice)]
        ELSE [raised |-> FALSE,
              value |-> (position_mid_price_twice - 2 * current_price) * Dec(100)
                          >= out_of_range_threshold_down * (position_mid_price_twice - 2 * lower_price)]

\* The handlers of strategy B with HODL work on [l, active]: the ladder
\* state of strategy B and is_hodl_mode_active.
WithHodl(l, active) == [l |-> l, active |-> active]

go_back_to_lping(h) ==
    Let(rebalance_and_add_symmetric_liquidity([h.l.w EXCEPT !.hodl = HodlModeStatus],
                                              config.ranges[1]), LAMBDA w1 :
        WithHodl(Ladder(w1, h.l.count, 0, IF w1.err = NoError THEN "back" ELSE "none"), FALSE))

\* the HODL branch of on_bar_custom; min() of an emptied window raises
on_bar_custom_in_hodl(h, current_timestamp, current_price) ==
    LET prices_list == Append(h.l.w.hodl.prices_for_returning_window,
                              PricePoint(current_timestamp, current_price))
        min_time_passed_to_go_back_to_lping ==
            current_timestamp - config.hodl_configuration.return_duration
                >= prices_list[1].timestamp
    IN  IF min_time_passed_to_go_back_to_lping
        THEN LET popped == Tail(prices_list)
                 w1 == [h.l.w EXCEPT !.hodl.prices_for_returning_window = popped]
             IN  IF popped = <<>>
                 THEN WithHodl([h.l EXCEPT !.w = Raise(w1, "ValueError")], TRUE)
                 ELSE IF find_highest_price_movement(popped)
                            < config.hodl_configuration.return_price_percentage
                 THEN go_back_to_lping(WithHodl([h.l EXCEPT !.w = w1], TRUE))
                 ELSE WithHodl([h.l EXCEPT !.w = w1], TRUE)
        ELSE WithHodl([h.l EXCEPT !.w.hodl.prices_for_returning_window = prices_list], TRUE)

\* the threshold check that ends the LP branch of on_bar_custom
rebalance_on_threshold(h) ==
    IF h.l.w.err # NoError \/ Len(h.l.w.pos) = 0 THEN h
    ELSE Let(position_range_threshold_reached(KeyOf(h.l.w.pos[1]),
                                              config.out_of_range_threshold_up,
                                              config.out_of_range_threshold_down,
                                              None, h.l.w.price), LAMBDA reached :
             IF reached.raised
             THEN [h EXCEPT !.l.w = Raise(@, "out of range threshold must be between 0 and 100")]
             ELSE IF reached.value
             THEN [h EXCEPT !.l.w = rebalance_and_add_symmetric_liquidity(@, config.ranges[1])]
             ELSE h)

\* BrokkrStrategyBWithHodl.on_bar_custom
on_bar_custom_with_hodl(h, status, series) ==
    IF status.len = 0 \/ ~can_rebalance(h.l.w, status) THEN h
    ELSE IF ~h.active
    THEN IF should_get_out_of_lp(h.l.w.hodl, series, h.l.w.now)
         THEN Let(get_out_of_lp(h.l.w, config.hodl_configuration.hodl_mode_range), LAMBDA w1 :
                  rebalance_on_threshold(
                      WithHodl(Ladder(w1, h.l.count, h.l.since,
                                      IF w1.err = NoError THEN "hodl" ELSE "none"),
                               w1.err = NoError)))
         ELSE Let(handle_current_timestamp(h.l, status), LAMBDA l1 :
                  rebalance_on_threshold(WithHodl(l1, FALSE)))
    ELSE on_bar_custom_in_hodl(h, h.l.w.now, h.l.w.price)

InitHodl ==
    /\ Idle
    /\ phase = "constructed"
    /\ policy = "BH"
    /\ \E thresholds \in {<<Dec(100), Dec(100)>>, <<Dec(50), Dec(50)>>, <<Dec(10), Dec(10)>>},
          max_rebalances \in {<<None, None>>, <<Some(2), Some(5)>>},
          period \in {1, 3}, duration \in {0, 1, 2}, hodl_mode_range \in {Dec(0), Dec(50)} :
           config = [ranges |-> <<Dec(2)>>, max_rebalances |-> <<2>>,
                     min_time_between_rebalances |-> 1,
                     out_of_range_threshold_up |-> thresholds[1],
                     out_of_range_threshold_down |-> thresholds[2],
                     hodl_configuration |->
                         [max_rebalances_count |-> max_rebalances[1],
                          max_rebalances_window |-> max_rebalances[2],
                          max_price_change_per_period_in_percentage |-> Dec(10),
                          price_movement_period_in_hours |-> period,
                          return_price_percentage |-> Dec(10),
                          return_duration |-> duration,
                          hodl_mode_range |-> hodl_mode_range]]
    /\ fees_configuration \in LadderFees
    /\ assets = [base |-> Dec(20), quote |-> 0]
    /\ market = [price |-> Dec(1), timestamp |-> 1]

\* One bar of strategy B with HODL: the driver sets the market status of the
\* row, on_bar runs, the driver appends the account status.
OnBarHodl ==
    /\ phase = "running"
    /\ policy = "BH"
    /\ err = NoError
    /\ \E price \in {Dec(1), Dec(1) + 4, Dec(1) + 25} :
           LET first == account_status.len = 0
               row == IF first THEN market
                      ELSE [price |-> price, timestamp |-> market.timestamp + 1]
               series == IF first THEN <<PricePoint(row.timestamp, row.price)>>
                         ELSE Append(price_series, PricePoint(row.timestamp, row.price))
           IN  \E h \in {on_bar_custom_with_hodl(
                             WithHodl(Ladder(World(row.price, row.timestamp),
                                             day_to_rebalance_count,
                                             max_range_active_since, "none"),
                                      is_hodl_mode_active),
                             account_status, series)} :
               /\ row.timestamp <= MaxHodlBars
               /\ market' = row
               /\ price_series' = series
               /\ Commit(h.l.w)
               /\ day_to_rebalance_count' = h.l.count
               /\ max_range_active_since' = h.l.since
               /\ is_hodl_mode_active' = h.active
               /\ hodl_entered' = IF h.active /\ ~is_hodl_mode_active THEN row.timestamp
                                  ELSE hodl_entered
               /\ hodl_left' = IF is_hodl_mode_active /\ ~h.active THEN row.timestamp
                               ELSE hodl_left
               \* what on_successful_position_opened recorded on this bar
               /\ rebalanced' =
                      LET kept == IF is_hodl_mode_active /\ ~h.active THEN HodlModeStatus
                                  ELSE hodl_status
                      IN  [up |-> rebalanced.up \o SubSeq(h.l.w.hodl.rebalances_up,
                                                          Len(kept.rebalances_up) + 1,
                                                          Len(h.l.w.hodl.rebalances_up)),
                           down |-> rebalanced.down \o SubSeq(h.l.w.hodl.rebalances_down,
                                                              Len(kept.rebalances_down) + 1,
                                                              Len(h.l.w.hodl.rebalances_down))]
               /\ performed' = performed
               /\ widest_range_since' = widest_range_since
               /\ UNCHANGED extendVars
               /\ account_status' = AccountStatus(row.timestamp, h.l.w.pos, row.price)
               /\ handler' = IF h.l.did = "none" THEN "on_bar" ELSE h.l.did
    /\ UNCHANGED <<runVars, hodl_mode_start_timestamp, last_active_position_start_price,
                   is_enough_data_to_start_flag, tracked,
                   looked_up, computed>>

NextHodl == Initialize \/ OnBarHodl

SpecHodl == InitHodl /\ [][NextHodl]_vars


\* ------------------------------------------------ claims on entering HODL
\* (a) on the bar just run: the highest and the lowest price of the bars of
\* the last price_movement_period_in_hours differ by more than the configured
\* percent of the highest
C11_PriceMoved ==
    LET now == market'.timestamp
        period == config.hodl_configuration.price_movement_period_in_hours
        seen == {price_series'[i].price : i \in {j \in 1..Len(price_series') :
                     /\ price_series'[j].timestamp >= now - period
                     /\ price_series'[j].timestamp <= now}}
    IN  \E hi \in seen, lo \in seen :
            /\ \A p \in seen : lo <= p /\ p <= hi
            /\ (hi - lo) * Dec(100) > config.hodl_configuration.max_price_change_per_period_in_percentage * hi

\* (b) before the bar just run: max_rebalances_count rebalances of one
\* direction, none older than `oldest`, lie within the trailing
\* max_rebalances_window; true when count or window is unset
C11_RebalancesReached(oldest) ==
    LET count == config.hodl_configuration.max_rebalances_count
        window == config.hodl_configuration.max_rebalances_window
        recent(timestamps) == {i \in 1..Len(timestamps) :
                                  /\ timestamps[i] >= oldest
                                  /\ timestamps[i] >= market'.timestamp - window[1]}
    IN  \/ count = None
        \/ window = None
        \/ Cardinality(recent(rebalanced.up)) >= count[1]
        \/ Cardinality(recent(rebalanced.down)) >= count[1]

C11_EntersIff(oldest) ==
    (phase = "running" /\ ~is_hodl_mode_active) =>
        /\ is_hodl_mode_active' => (C11_PriceMoved /\ C11_RebalancesReached(oldest))
        /\ (C11_PriceMoved /\ C11_RebalancesReached(oldest) /\ err' = NoError)
               => is_hodl_mode_active'

\* C11 amended: while not in HODL mode, a bar enters HODL mode if and only if
\* (a) the price moved by more than the configured percent within the
\* look-back period and (b) the configured count of rebalances of one
\* direction, counted among those done since HODL mode was last left, lies
\* within the trailing window (vacuous when count or window is unset); a bar
\* whose entry fails on the gas fee ends the run outside HODL mode.
C11_EntersHodlIffBothSinceLeft == [][C11_EntersIff(hodl_left)]_vars

\* C11 as stated: condition (b) counts every rebalance of one direction within
\* the trailing window.
C11_EntersHodlIffBoth == [][C11_EntersIff(0)]_vars

\* HODL mode was entered on this bar under a configured count and window
C11_Witness ==
    /\ is_hodl_mode_active
    /\ err = NoError
    /\ handler = "hodl"
    /\ hodl_entered = market.timestamp
    /\ config.hodl_configuration.max_rebalances_count # None


\* ------------------------------------------------- claims on leaving HODL
\* the prices of the last return_duration bars up to the bar just run
C12_TrailingPrices ==
    {price_series'[i].price : i \in {j \in 1..Len(price_series') :
         /\ price_series'[j].timestamp > market'.timestamp - config.hodl_configuration.return_duration
         /\ price_series'[j].timestamp <= market'.timestamp}}

\* C12: a bar leaves HODL mode only if at least return_duration has passed
\* since the bar on which HODL mode was entered and the highest and the lowest
\* of the buffered trailing prices differ by less than return_price_percentage
\* of the lowest; otherwise the policy stays in HODL mode.
C12_LeavesHodlOnlyAfterCalm ==
    [][(phase = "running" /\ is_hodl_mode_active /\ ~is_hodl_mode_active') =>
           /\ market'.timestamp - hodl_entered >= config.hodl_configuration.return_duration
           /\ C12_TrailingPrices # {}
           /\ \E hi \in C12_TrailingPrices, lo \in C12_TrailingPrices :
                  /\ \A p \in C12_TrailingPrices : lo <= p /\ p <= hi
                  /\ (hi - lo) * Dec(100) < config.hodl_configuration.return_price_percentage * lo]_vars

\* HODL mode was left on this bar, after bars on which it was kept because the
\* time had not passed or the prices had moved too much
C12_Witness ==
    /\ ~is_hodl_mode_active
    /\ err = NoError
    /\ handler = "back"
    /\ hodl_left = market.timestamp
    /\ config.hodl_configuration.return_duration = 2
    /\ hodl_left - hodl_entered > 3


\* ================================================== the constant-range policy
\* config: [range_in_percentage].  InvestAll defines no on_bar_custom: the
\* body it inherits from BrokkrStrategy is `pass`.
MaxConstantBars == 4

\* an on_bar_custom that rebalances a position left by the price
on_bar_custom_rebalancing(w, status) ==
    IF status.len # 0 /\ is_out_of_range(status)
    THEN rebalance_and_add_symmetric_liquidity(w, config.range_in_percentage)
    ELSE w

\* BrokkrStrategy.on_bar_custom, as InvestAll inherits it
on_bar_custom_inherited(w, status) == w

InitConstant ==
    /\ Idle
    /\ phase = "constructed"
    /\ policy = "IA"
    /\ \E range_in_percentage \in {Dec(2), Dec(5), Dec(50)} :
           config = [range_in_percentage |-> range_in_percentage]
    /\ fees_configuration \in LadderFees
    /\ assets = [base |-> Dec(20), quote |-> 0]
    /\ \E price \in {Dec(1), Dec(2)} : market = [price |-> price, timestamp |-> 1]

\* BrokkrStrategy.initialize with initialize_custom of InvestAll
InitializeConstant ==
    /\ phase = "constructed"
    /\ policy = "IA"
    /\ phase' = "running"
    /\ Commit(rebalance_and_add_symmetric_liquidity(Here, config.range_in_percentage))
    /\ handler' = "initialize"
    /\ UNCHANGED <<policy, config, fees_configuration, barVars, ladderVars, extendVars, hodlVars,
                   tracked, looked_up, computed>>

\* One bar of the constant-range policy
OnBarConstant ==
    /\ phase = "running"
    /\ policy = "IA"
    /\ err = NoError
    /\ \E price \in {Dec(1) \div 2, Dec(1), Dec(2)} :
           LET first == account_status.len = 0
               row == IF first THEN market
                      ELSE [price |-> price, timestamp |-> market.timestamp + 1]
           IN  \E w \in {on_bar_custom_inherited(World(row.price, row.timestamp), account_status)} :
               /\ row.timestamp <= MaxConstantBars
               /\ market' = row
               /\ Commit(w)
               /\ account_status' = AccountStatus(row.timestamp, w.pos, row.price)
               /\ handler' = "on_bar"
    /\ UNCHANGED <<runVars, ladderVars, extendVars, hodlVars, tracked, looked_up, computed>>

NextConstant == InitializeConstant \/ OnBarConstant

SpecConstant == InitConstant /\ [][NextConstant]_vars

\* C13: the constant-range policy opens exactly one symmetric position at run
\* start and never rebalances afterwards: from initialize on, the rebalance
\* count is 1, the LP-add count is 1, nothing was closed, the one position
\* open is the symmetric one of the configured range, and a bar calls nothing
\* on the pool.
C13_OnePositionForTheRun ==
    (phase = "running" /\ policy = "IA" /\ err = NoError) =>
        /\ stats.rebalances_count = 1
        /\ stats.providing_lp_count = 1
        /\ stats.withdrawing_lp_count = 0
        /\ Len(positions) = 1
        /\ positions[1].range = Some(config.range_in_percentage)
        /\ KeyOf(positions[1]) = PositionInfo(current_range.low, current_range.high)
        /\ current_range.low < current_range.high
        /\ handler = "on_bar" => trace = <<>>

\* a bar later than the one on which the price left the position's range
C13_Witness ==
    /\ phase = "running"
    /\ policy = "IA"
    /\ err = NoError
    /\ handler = "on_bar"
    /\ account_status.len = 1
    /\ market.timestamp >= 3
    /\ market.price > current_range.high
    /\ stats.rebalances_count = 1


\* ===================================================== the range functions
\* The two functions of strategy_utils that turn a price and a width in percent
\* into the bounds of a position, called on prices and widths of the model's
\* precision.  Widths are whole percents, so that PERCENT_TO_DECIMAL * width
\* is exact as it is in the code.
BoundsPrices == {Dec(1), Dec(2), Dec(3), Dec(7), Dec(100), 150, 333, 1234, 9999}

BoundsWidths == {Dec(1), Dec(2), Dec(5), Dec(33), Dec(50), Dec(99)}

InitBounds ==
    /\ Idle
    /\ phase = "functions"
    /\ policy = "none"
    /\ config = <<>>
    /\ fees_configuration = NoFeesConfiguration
    /\ assets = [base |-> 0, quote |-> 0]
    /\ market = [price |-> Dec(1), timestamp |-> 1]

SymmetricRange ==
    /\ phase = "functions"
    /\ \E range_in_percentage \in BoundsWidths, price \in BoundsPrices :
           \E bounds \in {get_lower_upper_price_for_symmetric_range(range_in_percentage, price)} :
               computed' = [function |-> "symmetric", down |-> range_in_percentage,
                            up |-> range_in_percentage, price |-> price,
                            lower |-> bounds[1], upper |-> bounds[2]]
    /\ handler' = "get_lower_upper_price_for_symmetric_range"
    /\ UNCHANGED <<runVars, barVars, worldVars, ladderVars, extendVars, hodlVars, tracked, looked_up>>

AsymmetricRange ==
    /\ phase = "functions"
    /\ \E down \in BoundsWidths, up \in BoundsWidths, price \in BoundsPrices :
           \E bounds \in {get_lower_upper_price_for_asymmetric_range(down, up, price)} :
               computed' = [function |-> "asymmetric", down |-> down, up |-> up,
                            price |-> price, lower |-> bounds[1], upper |-> bounds[2]]
    /\ handler' = "get_lower_upper_price_for_asymmetric_range"
    /\ UNCHANGED <<runVars, barVars, worldVars, ladderVars, extendVars, hodlVars, tracked, looked_up>>

NextBounds == SymmetricRange \/ AsymmetricRange

SpecBounds == InitBounds /\ [][NextBounds]_vars

\* ------------------------------------------- claims on the range functions
\* the width of the last call as a whole number of percents
C14_Percent == computed.up \div Scale

\* C14 amended: for a width of r percent and a price p the symmetric bounds
\* are p/(1+r/100) and p*(1+r/100), each rounded half-even to the precision of
\* the arithmetic, so that lower < p < upper and lower*upper differs from p*p
\* by no more than the two roundings allow (the products are formed for the
\* prices whose squares fit the integers of the checker).
C14_SymmetricBoundsRounded ==
    (computed # <<>> /\ computed.function = "symmetric") =>
        /\ 2 * Abs(computed.lower * (100 + C14_Percent) - 100 * computed.price) <= 100 + C14_Percent
        /\ 2 * Abs(100 * computed.upper - computed.price * (100 + C14_Percent)) <= 100
        /\ computed.lower < computed.price
        /\ computed.price < computed.upper
        /\ computed.price < 20000 =>
               4 * Abs(computed.lower * computed.upper - computed.price * computed.price)
                   <= 2 * (computed.lower + computed.upper) + 3

\* C14 as stated: the bounds are symmetric about the price, lower*upper = p*p.
C14_SymmetricBoundsExact ==
    (computed # <<>> /\ computed.function = "symmetric") =>
        /\ computed.lower < computed.price
        /\ computed.price < computed.upper
        /\ computed.price < 20000 =>
               computed.lower * computed.upper = computed.price * computed.price

\* the bounds of p = 100 and a width of 5 percent: 95.24 and 105.00
C14_Witness ==
    /\ computed # <<>>
    /\ computed.function = "symmetric"
    /\ computed.price = Dec(100)
    /\ computed.up = Dec(5)
    /\ 2 * Abs(computed.lower * 100 - 9524 * Scale) <= 100
    /\ computed.upper = Dec(105)


\* C15 amended: the percents recomputed from the asymmetric bounds,
\* 100*(p-lower)/p and 100*(upper-p)/p, are the down and up percents the
\* bounds were computed from up to the rounding of the bounds: each differs
\* from its input by no more than 100/p times half a unit of the last place.
C15_AsymmetricRoundTripRounded ==
    (computed # <<>> /\ computed.function = "asymmetric") =>
        /\ 2 * Abs(100 * (computed.price - computed.lower)
                     - (computed.down \div Scale) * computed.price) <= 100
        /\ 2 * Abs(100 * (computed.upper - computed.price)
                     - (computed.up \div Scale) * computed.price) <= 100

\* C15 as stated: the recomputed percents are the inputs.
C15_AsymmetricRoundTripExact ==
    (computed # <<>> /\ computed.function = "asymmetric") =>
        /\ DecDiv(100 * (computed.price - computed.lower), computed.price) = computed.down
        /\ DecDiv(100 * (computed.upper - computed.price), computed.price) = computed.up

\* bounds whose products with the percents had to be rounded
C15_Witness ==
    /\ computed # <<>>
    /\ computed.function = "asymmetric"
    /\ computed.price = 1234
    /\ computed.down = Dec(33)
    /\ computed.up = Dec(5)
    /\ 100 * computed.lower # 67 * computed.price
    /\ 100 * computed.upper # 105 * computed.price

\* ---------------------------------------------------- the asymmetric policy
MaxAsymBars == 4

\* the handlers of BrokkrStrategyAsymmetric work on [w, start]: the world and
\* last_active_position_start_price
WithStart(w, start) == [w |-> w, start |-> start]

\* BrokkrStrategyAsymmetric.initialize_custom
initialize_custom_asymmetric(w, swap) ==
    Let(rebalance_and_add_asymmetric_liquidity(w, config.range_dwn_in_percentage,
                                               config.range_up_in_percentage, swap), LAMBDA w1 :
        WithStart(w1, IF w1.err = NoError THEN Some(w1.price) ELSE None))

\* BrokkrStrategyAsymmetric.on_bar_custom
on_bar_custom_asymmetric(a, status, swap) ==
    IF status.len = 0 \/ Len(a.w.pos) = 0 THEN a
    ELSE Let(position_range_threshold_reached(KeyOf(a.w.pos[1]),
                                              config.out_of_range_threshold_up,
                                              config.out_of_range_threshold_down,
                                              a.start, a.w.price), LAMBDA reached :
             IF reached.raised
             THEN [a EXCEPT !.w = Raise(@, "out of range threshold must be between 0 and 100")]
             ELSE IF reached.value
             THEN Let(rebalance_and_add_asymmetric_liquidity(a.w, config.range_dwn_in_percentage,
                                                             config.range_up_in_percentage, swap),
                      LAMBDA w1 : WithStart(w1, IF w1.err = NoError THEN Some(w1.price)
                                                ELSE a.start))
             ELSE a)

\* BrokkrStrategyAsymmetric(range_dwn, range_up, threshold_up, threshold_down):
\* __init__ stores what it is given
InitAsym ==
    /\ Idle
    /\ phase = "constructed"
    /\ policy = "AS"
    /\ \E range_dwn_in_percentage \in {Dec(50), Dec(100), Dec(150)},
          thresholds \in {<<Dec(100), Dec(100)>>, <<Dec(50), Dec(50)>>, <<Dec(150), Dec(100)>>,
                          <<Dec(100), Dec(150)>>, <<0 - Dec(1), Dec(100)>>,
                          <<Dec(100), 0 - Dec(1)>>} :
           config = [range_dwn_in_percentage |-> range_dwn_in_percentage,
                     range_up_in_percentage |-> Dec(50),
                     out_of_range_threshold_up |-> thresholds[1],
                     out_of_range_threshold_down |-> thresholds[2]]
    /\ fees_configuration \in LadderFees
    /\ assets = [base |-> Dec(20), quote |-> 0]
    /\ market = [price |-> Dec(1), timestamp |-> 1]

\* BrokkrStrategy.initialize with initialize_custom of BrokkrStrategyAsymmetric
InitializeAsym ==
    /\ phase = "constructed"
    /\ policy = "AS"
    /\ phase' = "running"
    /\ \E swap \in {"buy", "sell", "none"} :
       \E a \in {initialize_custom_asymmetric(Here, swap)} :
           /\ Commit(a.w)
           /\ last_active_position_start_price' = a.start
    /\ handler' = "initialize"
    /\ UNCHANGED <<policy, config, fees_configuration, barVars, ladderVars, extendVars,
                   is_hodl_mode_active, hodl_mode_start_timestamp, hodl_entered, hodl_left,
                   rebalanced, price_series, is_enough_data_to_start_flag, tracked, looked_up,
                   computed>>

\* One bar of the asymmetric policy
OnBarAsym ==
    /\ phase = "running"
    /\ policy = "AS"
    /\ err = NoError
    /\ \E price \in {Dec(1) \div 2 - 10, Dec(1) - 25, Dec(1), Dec(1) + 25, Dec(1) + 50},
          swap \in {"buy", "sell", "none"} :
           LET first == account_status.len = 0
               row == IF first THEN market
                      ELSE [price |-> price, timestamp |-> market.timestamp + 1]
           IN  \E a \in {on_bar_custom_asymmetric(
                             WithStart(World(row.price, row.timestamp),
                                       last_active_position_start_price),
                             account_status, swap)} :
               /\ row.timestamp <= MaxAsymBars
               /\ market' = row
               /\ Commit(a.w)
               /\ last_active_position_start_price' = a.start
               /\ account_status' = AccountStatus(row.timestamp, a.w.pos, row.price)
               /\ handler' = IF EventsOf(a.w.trace, "open") # {} THEN "rebalance"
                             ELSE "on_bar"
    /\ UNCHANGED <<runVars, ladderVars, extendVars, is_hodl_mode_active, hodl_mode_start_timestamp,
                   hodl_entered, hodl_left, rebalanced, price_series,
                   is_enough_data_to_start_flag, tracked, looked_up, computed>>

NextAsym == InitializeAsym \/ OnBarAsym

SpecAsym == InitAsym /\ [][NextAsym]_vars

\* ---------------------------------- claims on the asymmetric policy's errors
\* C17: the asymmetric policy never asks the pool to open a position whose
\* lower bound is not positive and holds none; configured with a down percent
\* of 100 or more, its initialize fails and nothing is opened
C17_NonPositiveLowerBoundFails ==
    policy = "AS" =>
        /\ \A i \in 1..Len(trace) :
               trace[i].op \in {"open", "add_liquidity"} => trace[i].args[1] > 0
        /\ \A i \in 1..Len(positions) : positions[i].lower > 0
        /\ (phase = "running" /\ config.range_dwn_in_percentage >= Dec(100)) =>
               /\ err \in {"DivisionByZero", "InvalidOperation"}
               /\ positions = <<>>
               /\ stats.providing_lp_count = 0
               /\ last_active_position_start_price = None

C17_Witness ==
    /\ policy = "AS"
    /\ phase = "running"
    /\ handler = "initialize"
    /\ config.range_dwn_in_percentage = Dec(150)
    /\ err = "InvalidOperation"
    /\ EventsOf(trace, "open") = {}

\* an up or down threshold below 0 or above 100
ThresholdOutside ==
    \/ config.out_of_range_threshold_up < 0
    \/ config.out_of_range_threshold_up > Dec(100)
    \/ config.out_of_range_threshold_down < 0
    \/ config.out_of_range_threshold_down > Dec(100)

\* the bar about to run reaches position_range_threshold_reached
ThresholdCheckRuns ==
    /\ policy = "AS"
    /\ phase = "running"
    /\ err = NoError
    /\ account_status.len # 0
    /\ Len(positions) > 0
    /\ market'.timestamp = market.timestamp + 1

\* C18: on a bar where the displacement-threshold check runs, it raises its
\* error exactly when the up or the down threshold lies outside 0..100
C18_RejectsThresholdsOutside ==
    [][ThresholdCheckRuns =>
           ((err' = "out of range threshold must be between 0 and 100") <=> ThresholdOutside)]_vars

\* C19: a configuration with a threshold outside 0..100 is refused when the
\* policy is constructed: initialize never runs, no position is opened, no
\* counter changes and no bar is processed
C19_ThresholdErrorAtConstruction ==
    (policy = "AS" /\ ThresholdOutside) =>
        /\ phase = "constructed"
        /\ positions = <<>>
        /\ stats = ZeroStats
        /\ account_status.len = 0

\* ------------------------------------------------ the time-dynamic policy
MaxDynamicBars == 8

\* the handlers of BrokkrStrategyTimeDynamicRanges work on [w, flag, start]:
\* the world, is_enough_data_to_start_flag and hodl_mode_start_timestamp
Dynamic(w, flag, start) == [w |-> w, flag |-> flag, start |-> start]

\* float(d) of a Decimal and Decimal(f) of that float: exact for 0 and off by
\* less than one part in 10^15 otherwise, which is below the resolution kept
\* here
decimal_of_float(d) == IF d = 0 THEN 0 ELSE d

is_enough_data_to_start(flag, series, current_timestamp) ==
    IF flag THEN TRUE
    ELSE current_timestamp - series[1].timestamp >= config.last_days_count * StepsPerDay

\* BrokkrStrategy.get_average_max_daily_price_change: statistics.mean of the
\* daily maxima
RECURSIVE SumOfDailyChanges(_, _, _)
SumOfDailyChanges(series, current_timestamp, i) ==
    IF i = 0 THEN 0
    ELSE get_max_price_change_in_past_period(series, current_timestamp - (i - 1) * StepsPerDay,
                                             StepsPerDay)
         + SumOfDailyChanges(series, current_timestamp, i - 1)

get_average_max_daily_price_change(series, last_days_count, current_timestamp) ==
    DecDiv(SumOfDailyChanges(series, current_timestamp, last_days_count), Dec(last_days_count))

\* get_range_for_last_n_days: whether it raised and, if not, the range
get_range_for_last_n_days(series, last_days_count, current_timestamp) ==
    IF config.mode = "Max"
    THEN [raised |-> FALSE,
          value |-> decimal_of_float(get_max_price_change_in_past_period(
                        series, current_timestamp, last_days_count * StepsPerDay))]
    ELSE IF config.mode = "Average"
    THEN [raised |-> FALSE,
          value |-> decimal_of_float(get_average_max_daily_price_change(
                        series, last_days_count, current_timestamp))]
    ELSE [raised |-> TRUE, value |-> 0]

\* an exit test that does not wait for the return duration
should_exit_hodl_mode_hasty(start, series, current_timestamp) ==
    get_max_price_change_in_past_period(series, current_timestamp,
                                        config.hodl_configuration.return_duration_in_hours)
        <= config.hodl_configuration.return_price_percentage

should_exit_hodl_mode(start, series, current_timestamp) ==
    /\ current_timestamp - start[1] >= config.hodl_configuration.return_duration_in_hours
    /\ get_max_price_change_in_past_period(series, current_timestamp,
                                           config.hodl_configuration.return_duration_in_hours)
           <= config.hodl_configuration.return_price_percentage

should_go_to_hodl_mode(series, current_timestamp) ==
    get_max_price_change_in_past_period(series, current_timestamp,
                                        config.hodl_configuration.price_movement_period_in_hours)
        > config.hodl_configuration.max_price_change_per_period_in_percentage

\* the last two statements of on_bar_custom and of exit_hodl_mode
rebalance_to_derived_range(w, series) ==
    Let(get_range_for_last_n_days(series, config.last_days_count, w.now), LAMBDA range :
        IF range.raised THEN Raise(w, "Unsupported mode")
        ELSE rebalance_and_add_symmetric_liquidity(w, range.value))

exit_hodl_mode(t, series) == Dynamic(rebalance_to_derived_range(t.w, series), t.flag, None)

\* BrokkrStrategyTimeDynamicRanges.on_bar_custom
on_bar_custom_time_dynamic(t, status, series) ==
    IF ~is_enough_data_to_start(t.flag, series, t.w.now) THEN t
    ELSE IF t.start # None
    THEN IF should_exit_hodl_mode(t.start, series, t.w.now)
         THEN exit_hodl_mode(Dynamic(t.w, TRUE, t.start), series)
         ELSE Dynamic(t.w, TRUE, t.start)
    ELSE IF should_go_to_hodl_mode(series, t.w.now)
    THEN Dynamic(go_to_hodl_mode(t.w), TRUE, Some(t.w.now))
    ELSE IF Len(t.w.pos) = 0 \/ is_out_of_range(status)
    THEN Dynamic(rebalance_to_derived_range(t.w, series), TRUE, None)
    ELSE Dynamic(t.w, TRUE, None)

\* BrokkrStrategyTimeDynamicRanges(mode, last_days_count, hodl_configuration):
\* __init__ stores what it is given
InitDynamic ==
    /\ Idle
    /\ phase = "constructed"
    /\ policy = "TD"
    /\ \E mode \in {"Max", "Average", "Unsupported"}, last_days_count \in {1, 2},
          return_duration_in_hours \in {1, 2} :
           config = [mode |-> mode, last_days_count |-> last_days_count,
                     hodl_configuration |->
                         [max_price_change_per_period_in_percentage |-> Dec(10),
                          price_movement_period_in_hours |-> 2,
                          return_price_percentage |-> Dec(10),
                          return_duration_in_hours |-> return_duration_in_hours]]
    /\ fees_configuration \in LadderFees
    /\ assets = [base |-> Dec(20), quote |-> 0]
    /\ market = [price |-> Dec(1), timestamp |-> 1]

\* BrokkrStrategy.initialize: the policy inherits an empty initialize_custom
InitializeDynamic ==
    /\ phase = "constructed"
    /\ policy = "TD"
    /\ phase' = "running"
    /\ handler' = "initialize"
    /\ UNCHANGED <<policy, config, fees_configuration, barVars, worldVars, ladderVars, extendVars, hodlVars,
                   tracked, looked_up, computed>>

\* One bar of the time-dynamic policy
OnBarDynamic ==
    /\ phase = "running"
    /\ policy = "TD"
    /\ err = NoError
    /\ \E price \in {Dec(1), Dec(1) + 4, Dec(1) + 25} :
           LET first == account_status.len = 0
               row == IF first THEN market
                      ELSE [price |-> price, timestamp |-> market.timestamp + 1]
               series == IF first THEN <<PricePoint(row.timestamp, row.price)>>
                         ELSE Append(price_series, PricePoint(row.timestamp, row.price))
           IN  \E t \in {on_bar_custom_time_dynamic(
                             Dynamic(World(row.price, row.timestamp),
                                     is_enough_data_to_start_flag, hodl_mode_start_timestamp),
                             account_status, series)} :
               /\ row.timestamp <= MaxDynamicBars
               /\ market' = row
               /\ price_series' = series
               /\ Commit(t.w)
               /\ is_enough_data_to_start_flag' =
                      is_enough_data_to_start(is_enough_data_to_start_flag, series, row.timestamp)
               /\ hodl_mode_start_timestamp' = t.start
               /\ account_status' = AccountStatus(row.timestamp, t.w.pos, row.price)
               /\ handler' = IF t.start # None /\ hodl_mode_start_timestamp = None
                             THEN "go_to_hodl_mode"
                             ELSE IF t.start = None /\ hodl_mode_start_timestamp # None
                             THEN "exit_hodl_mode"
                             ELSE IF EventsOf(t.w.trace, "open") # {} THEN "rebalance"
                             ELSE "on_bar"
    /\ UNCHANGED <<runVars, ladderVars, extendVars, is_hodl_mode_active, hodl_entered, hodl_left, rebalanced,
                   last_active_position_start_price, tracked, looked_up, computed>>

NextDynamic == InitializeDynamic \/ OnBarDynamic

SpecDynamic == InitDynamic /\ [][NextDynamic]_vars

\* C16: every position asked of the pool and every position held has
\* 0 < lower bound < upper bound, whatever range the policy derived
C16_BoundsOrdered ==
    /\ \A i \in 1..Len(trace) :
           trace[i].op \in {"open", "add_liquidity"} =>
               (0 < trace[i].args[1] /\ trace[i].args[1] < trace[i].args[2])
    /\ \A i \in 1..Len(positions) :
           0 < positions[i].lower /\ positions[i].lower < positions[i].upper

\* ------------------------------------------------ the fee configuration
\* str.lower() of the token symbols used here
lower(name) ==
    CASE name = "WETH" -> "weth"
      [] name = "USDC" -> "usdc"
      [] name = "ARB" -> "arb"
      [] name = "DAI" -> "dai"
      [] name = "WBTC" -> "wbtc"
      [] OTHER -> name

\* the year -> Fee tables of config/fees.py, with the fees of this module
ethereum_fees_native == (EpochYear :> FeeA) @@ (EpochYear + 1 :> FeeB)

ethereum_fees_usdc == (EpochYear :> FeeC) @@ (EpochYear + 1 :> FeeB)

arbitrum_fees_native == (EpochYear :> FeeA)

arbitrum_fees_usdc == (EpochYear :> FeeB)

\* chain -> list of [tokens, fee_rates], native tokens first
chain_to_fees_dict ==
    ("Ethereum" :> << [tokens |-> {"eth", "weth"}, fee_rates |-> ethereum_fees_native],
                      [tokens |-> {"usd", "usdc"}, fee_rates |-> ethereum_fees_usdc] >>)
    @@ ("Arbitrum" :> << [tokens |-> {"arb"}, fee_rates |-> arbitrum_fees_native],
                         [tokens |-> {"usd", "usdc"}, fee_rates |-> arbitrum_fees_usdc] >>)

\* the chains a pool can be on and the (base, quote) token symbols of pools
PoolChains == {"Ethereum", "Arbitrum", "Polygon"}

PoolTokens == {<<"USDC", "WETH">>, <<"WETH", "USDC">>, <<"USDC", "ARB">>, <<"DAI", "WBTC">>,
               <<"USDC", "DAI">>}

\* BrokkrStrategy.get_fees_configuration: whether the lookup of the chain
\* raised KeyError and, if not, the values it can return (set.pop() takes any
\* element of the match); NoFeesConfiguration stands for None
get_fees_configuration(chain, base_token, quote_token) ==
    IF chain \notin DOMAIN chain_to_fees_dict THEN [raised |-> TRUE, values |-> {}]
    ELSE
    LET tokens_in_pool == {lower(base_token), lower(quote_token)}
        fees_configuration_for_current_chain == chain_to_fees_dict[chain]
        matching == {i \in 1..Len(fees_configuration_for_current_chain) :
                        fees_configuration_for_current_chain[i].tokens \cap tokens_in_pool # {}}
    IN  IF matching = {} THEN [raised |-> FALSE, values |-> {NoFeesConfiguration}]
        ELSE LET first == fees_configuration_for_current_chain[MinOf(matching)]
             IN  [raised |-> FALSE,
                  values |-> {FeesConfiguration(IF lower(base_token) = matched_token_name
                                                THEN "base" ELSE "quote", first.fee_rates) :
                                  matched_token_name \in first.tokens \cap tokens_in_pool}]

\* A strategy B on a pool; strategy.chain and the market's tokens are set by
\* the driver before the run.  fees_configuration holds from the start what
\* initialize assigns to it.
InitPool ==
    /\ Idle
    /\ phase = "constructed"
    /\ policy = "B"
    /\ \E c \in LadderConfigs, chain \in PoolChains, tokens \in PoolTokens :
           /\ config = [ranges |-> c.ranges, max_rebalances |-> c.max_rebalances,
                        min_time_between_rebalances |-> 1, chain |-> chain,
                        base_token |-> tokens[1], quote_token |-> tokens[2]]
           /\ \E found \in {get_fees_configuration(chain, tokens[1], tokens[2])} :
                  fees_configuration \in (IF found.raised THEN {NoFeesConfiguration}
                                          ELSE found.values)
    /\ \E base \in LadderHoldings : assets = [base |-> base, quote |-> 0]
    /\ \E price \in LadderPrices : market = [price |-> price, timestamp |-> 1]

\* BrokkrStrategy.initialize: the fee configuration is looked up, then
\* initialize_custom of strategy B runs
InitializePool ==
    /\ phase = "constructed"
    /\ policy = "B"
    /\ phase' = "running"
    /\ IF get_fees_configuration(config.chain, config.base_token, config.quote_token).raised
       THEN Commit(Raise(Here, "KeyError"))
       ELSE Commit(rebalance_and_add_symmetric_liquidity(Here, config.ranges[1]))
    /\ handler' = "initialize"
    /\ UNCHANGED <<policy, config, fees_configuration, barVars, ladderVars, extendVars, hodlVars,
                   tracked, looked_up, computed>>

NextPool == InitializePool \/ OnBar

SpecPool == InitPool /\ [][NextPool]_vars

\* no entry of the fee table is found for the pool's chain and tokens
MissingFeeConfiguration ==
    \/ config.chain \notin DOMAIN chain_to_fees_dict
    \/ \A i \in 1..Len(chain_to_fees_dict[config.chain]) :
           chain_to_fees_dict[config.chain][i].tokens
               \cap {lower(config.base_token), lower(config.quote_token)} = {}

\* C20: with no fee-table entry for the pool's chain and tokens, initialize
\* succeeds and the run charges nothing: no error, no fee taken from a
\* balance, the three cost counters at 0
C20_MissingFeeConfigurationNotFatal ==
    (MissingFeeConfiguration /\ phase = "running") =>
        /\ err = NoError
        /\ EventsOf(trace, "fee") = {}
        /\ stats.rebalances_cost = 0
        /\ stats.providing_lp_cost = 0
        /\ stats.withdrawing_lp_cost = 0

\* ------------------------------------------------------------- strategy A
MaxCappedBars == 7

\* a cap that lets one more rebalance through
on_bar_custom_capped_inclusive(l, status) ==
    IF status.len = 0 THEN l
    ELSE IF is_out_of_range(status)
    THEN LET timestamp == status.timestamp
             key == timestamp_to_key(timestamp)
             rebalanced_count == GetKey(l.count, key, 0)
             count0 == SetKey(l.count, key, rebalanced_count)
         IN  IF rebalanced_count > config.max_rebalances_per_day
             THEN Ladder(l.w, count0, l.since, "none")
             ELSE Let(rebalance_and_add_symmetric_liquidity(l.w, config.range_in_percentage),
                      LAMBDA w1 :
                          IF w1.err # NoError THEN Ladder(w1, count0, l.since, "none")
                          ELSE Ladder(w1, SetKey(count0, key, rebalanced_count + 1), l.since,
                                      "tier"))
    ELSE l

\* BrokkrStrategyA.on_bar_custom, on [w, count, since, did]
on_bar_custom_capped(l, status) ==
    IF status.len = 0 THEN l
    ELSE IF is_out_of_range(status)
    THEN LET timestamp == status.timestamp
             key == timestamp_to_key(timestamp)
             rebalanced_count == GetKey(l.count, key, 0)
             count0 == SetKey(l.count, key, rebalanced_count)
         IN  IF rebalanced_count >= config.max_rebalances_per_day
             THEN Ladder(l.w, count0, l.since, "none")
             ELSE Let(rebalance_and_add_symmetric_liquidity(l.w, config.range_in_percentage),
                      LAMBDA w1 :
                          IF w1.err # NoError THEN Ladder(w1, count0, l.since, "none")
                          ELSE Ladder(w1, SetKey(count0, key, rebalanced_count + 1), l.since,
                                      "tier"))
    ELSE l

\* BrokkrStrategyA(range_in_percentage, max_rebalances_per_day)
InitCapped ==
    /\ Idle
    /\ phase = "constructed"
    /\ policy = "A"
    /\ \E range_in_percentage \in {Dec(2), Dec(5)}, max_rebalances_per_day \in {1, 2} :
           config = [range_in_percentage |-> range_in_percentage,
                     max_rebalances_per_day |-> max_rebalances_per_day]
    /\ fees_configuration \in LadderFees
    /\ assets = [base |-> Dec(20), quote |-> 0]
    /\ market = [price |-> Dec(1), timestamp |-> 1]

\* BrokkrStrategy.initialize with initialize_custom of strategy A
InitializeCapped ==
    /\ phase = "constructed"
    /\ policy = "A"
    /\ phase' = "running"
    /\ Commit(rebalance_and_add_symmetric_liquidity(Here, config.range_in_percentage))
    /\ handler' = "initialize"
    /\ UNCHANGED <<policy, config, fees_configuration, barVars, ladderVars, extendVars, hodlVars,
                   tracked, looked_up, computed>>

\* One bar of strategy A
OnBarCapped ==
    /\ phase = "running"
    /\ policy = "A"
    /\ err = NoError
    /\ \E price \in {Dec(1), Dec(1) + 1, Dec(2)} :
           LET first == account_status.len = 0
               row == IF first THEN market
                      ELSE [price |-> price, timestamp |-> market.timestamp + 1]
           IN  \E l \in {on_bar_custom_capped(Ladder(World(row.price, row.timestamp),
                                                     day_to_rebalance_count,
                                                     max_range_active_since, "none"),
                                              account_status)} :
               /\ row.timestamp <= MaxCappedBars
               /\ market' = row
               /\ Commit(l.w)
               /\ day_to_rebalance_count' = l.count
               /\ max_range_active_since' = l.since
               /\ performed' = performed
               /\ widest_range_since' = widest_range_since
               /\ UNCHANGED extendVars
               /\ account_status' = AccountStatus(row.timestamp, l.w.pos, row.price)
               /\ handler' = IF l.did = "none" THEN "on_bar" ELSE l.did
    /\ UNCHANGED <<runVars, hodlVars, tracked, looked_up, computed>>

NextCapped == InitializeCapped \/ OnBarCapped

SpecCapped == InitCapped /\ [][NextCapped]_vars

\* the count recorded for a day key before the bar, 0 for a key not yet seen
CountOf(key) == GetKey(day_to_rebalance_count, key, 0)

\* what every bar of strategy A keeps: no counter above the cap, a skipped
\* bar changes no count
CappedCountersKept ==
    /\ \A key \in DOMAIN day_to_rebalance_count' :
           day_to_rebalance_count'[key] <= config.max_rebalances_per_day
    /\ handler' = "on_bar" =>
           \A key \in DOMAIN day_to_rebalance_count' :
               day_to_rebalance_count'[key] = CountOf(key)

\* the bar rebalances exactly when the position is out of range and the
\* count of `key` is below the cap, and then that count grows by one
CappedRebalancesIff(key) ==
    /\ (handler' = "tier") <=>
           (/\ account_status.len # 0
            /\ is_out_of_range(account_status)
            /\ CountOf(key) < config.max_rebalances_per_day)
    /\ handler' = "tier" => GetKey(day_to_rebalance_count', key, 0) = CountOf(key) + 1

CappedBar == policy = "A" /\ phase = "running" /\ err' = NoError

\* C21 as stated: strategy A rebalances on a bar exactly when the position is out of
\* range and fewer than max_rebalances_per_day rebalances are recorded for the
\* day key of that bar; no counter exceeds the cap, a skipped bar changes none
C21_RebalancesIffUnderCapOfBarDay ==
    [][CappedBar =>
           (CappedCountersKept /\ CappedRebalancesIff(timestamp_to_key(market'.timestamp)))]_vars

\* C21 amended: the same with the day key of the latest account status, the
\* snapshot taken after the previous bar, in place of the bar's own
C21_RebalancesIffUnderCapOfStatusDay ==
    [][CappedBar =>
           (CappedCountersKept
            /\ CappedRebalancesIff(timestamp_to_key(account_status.timestamp)))]_vars

\* a rebalance that fills the cap of its day after the cap of an earlier day
\* was filled
C21_Witness ==
    /\ policy = "A"
    /\ handler = "tier"
    /\ config.max_rebalances_per_day = 1
    /\ Cardinality(DOMAIN day_to_rebalance_count) >= 2
    /\ \A key \in DOMAIN day_to_rebalance_count : day_to_rebalance_count[key] = 1

\* ------------------------------------------------------------- strategy D
\* config: [range, amount_of_blocks, max_rebalances_per_24h].  The pool of
\* this module charges no swap fee (market._pool.fee_rate is 0).
MaxBlockBars == 6

Block(l, h) == <<l, h>>

find_range_low_border(upper_range_price, range_decimal) ==
    DecDiv(DecDiv(upper_range_price, ONE + range_decimal), ONE + range_decimal)

find_range_upper_border(lower_range_price, range_decimal) ==
    DecMul(DecMul(lower_range_price, ONE + range_decimal), ONE + range_decimal)

\* the blocks above the active block, lowest first
RECURSIVE blocks_above(_, _, _)
blocks_above(last_high, range_decimal, count) ==
    IF count = 0 THEN <<>>
    ELSE Let(find_range_upper_border(last_high, range_decimal), LAMBDA h :
             <<Block(last_high, h)>> \o blocks_above(h, range_decimal, count - 1))

\* the blocks below the active block, lowest first
RECURSIVE blocks_below(_, _, _)
blocks_below(last_low, range_decimal, count) ==
    IF count = 0 THEN <<>>
    ELSE Let(find_range_low_border(last_low, range_decimal), LAMBDA l :
             blocks_below(l, range_decimal, count - 1) \o <<Block(l, last_low)>>)

\* get_all_positions_to_open: [active_block, all_blocks], all_blocks sorted
\* by lower border
get_all_positions_to_open(init_price, amount_of_blocks, range_decimal) ==
    LET active_block == Block(DecDiv(init_price, ONE + range_decimal),
                              DecMul(init_price, ONE + range_decimal))
    IN  [active_block |-> active_block,
         all_blocks |-> blocks_below(active_block[1], range_decimal, amount_of_blocks)
                        \o blocks_above(active_block[2], range_decimal, amount_of_blocks)]

\* the loop of initialize_custom over positions_to_open
RECURSIVE open_each(_, _, _, _)
open_each(w, blocks, base_max_amount, quote_max_amount) ==
    IF blocks = <<>> \/ w.err # NoError THEN w
    ELSE open_each(add_liquidity_custom_range(w, Head(blocks)[1], Head(blocks)[2],
                                              Some(base_max_amount), Some(quote_max_amount),
                                              "NONE"),
                   Tail(blocks), base_max_amount, quote_max_amount)

\* BrokkrStrategyD.initialize_custom
initialize_custom_blocks(w) ==
    Then(symmetrical_rebalance(w, w.price), LAMBDA w1 :
        LET number_of_positions == (config.amount_of_blocks * 2) + 1
            assets_per_position == DecDiv(ONE, Dec(number_of_positions))
            base_holdings == w1.base
            quote_holdings == w1.quote
            range_decimal == DecMul(config.range, PERCENT_TO_DECIMAL)
            to_open == get_all_positions_to_open(w1.price, config.amount_of_blocks, range_decimal)
        IN  Then(add_liquidity_custom_range(w1, to_open.active_block[1], to_open.active_block[2],
                                            Some(DecMul(base_holdings, assets_per_position)),
                                            Some(DecMul(quote_holdings, assets_per_position)),
                                            "NONE"), LAMBDA w2 :
                open_each([w2 EXCEPT !.low = to_open.active_block[1],
                                     !.high = to_open.active_block[2]],
                          to_open.all_blocks,
                          DecMul(base_holdings, assets_per_position) * 2,
                          DecMul(quote_holdings, assets_per_position) * 2)))

is_out_of_active_block(position, price) ==
    IF price > position[2] THEN "UP"
    ELSE IF price < position[1] THEN "DOWN"
    ELSE "None"

\* a choice of the block to close that takes the block on the side of the move
get_position_to_close_near(pos, outOfRangeDirection) ==
    IF outOfRangeDirection = "DOWN" THEN sorted_by_lower(pos)[1]
    ELSE sorted_by_lower(pos)[Len(pos)]

get_position_to_close(pos, outOfRangeDirection) ==
    IF outOfRangeDirection = "DOWN" THEN sorted_by_lower(pos)[Len(pos)]
    ELSE sorted_by_lower(pos)[1]

\* BrokkrStrategyD.can_rebalance
can_rebalance_blocks(timestamps, current_timestamp) ==
    Cardinality({i \in 1..Len(timestamps) : timestamps[i] > current_timestamp - StepsPerDay})
        < config.max_rebalances_per_24h

\* BrokkrStrategyD.on_bar_custom
on_bar_custom_blocks(w, status) ==
    IF status.len = 0 THEN w
    ELSE
    LET range_decimal == DecMul(config.range, PERCENT_TO_DECIMAL)
        out_of_range_block_direction ==
            is_out_of_active_block(get_middle_position(w.pos), w.price)
    IN  IF out_of_range_block_direction = "None" \/ ~can_rebalance_blocks(w.rebalances, w.now)
        THEN w
        ELSE
        Then(remove_liquidity(w, get_position_to_close(w.pos, out_of_range_block_direction),
                              None), LAMBDA w1 :
            Then(IF out_of_range_block_direction = "UP"
                 THEN Let(pool_buy(w1, DecDiv(w1.base, w1.price)), LAMBDA w2 :
                          Let(get_highest_position(w2.pos)[2], LAMBDA lower_range :
                              add_liquidity_custom_range(
                                  w2, lower_range,
                                  find_range_upper_border(lower_range, range_decimal),
                                  None, None, "NONE")))
                 ELSE Let(pool_sell(w1, w1.quote), LAMBDA w2 :
                          Let(get_lowest_position(w2.pos)[1], LAMBDA upper_range :
                              add_liquidity_custom_range(
                                  w2, find_range_low_border(upper_range, range_decimal),
                                  upper_range, None, None, "NONE"))), LAMBDA w3 :
                on_successful_position_opened(w3, w3.now, 0, 0, "NONE")))

\* BrokkrStrategyD(range, amount_of_blocks, max_rebalances_per_24h)
InitBlocks ==
    /\ Idle
    /\ phase = "constructed"
    /\ policy = "D"
    /\ \E amount_of_blocks \in {1, 2}, max_rebalances_per_24h \in {1, 2, 4} :
           config = [range |-> Dec(50), amount_of_blocks |-> amount_of_blocks,
                     max_rebalances_per_24h |-> max_rebalances_per_24h]
    /\ fees_configuration \in LadderFees
    /\ assets = [base |-> Dec(40), quote |-> 0]
    /\ market = [price |-> Dec(1), timestamp |-> 1]

\* BrokkrStrategy.initialize with initialize_custom of strategy D
InitializeBlocks ==
    /\ phase = "constructed"
    /\ policy = "D"
    /\ phase' = "running"
    /\ Commit(initialize_custom_blocks(Here))
    /\ handler' = "initialize"
    /\ UNCHANGED <<policy, config, fees_configuration, barVars, ladderVars, extendVars, hodlVars,
                   tracked, looked_up, computed>>

\* One bar of strategy D; rebalanced keeps the timestamps of the ladder
\* shifts done, by direction
OnBarBlocks ==
    /\ phase = "running"
    /\ policy = "D"
    /\ err = NoError
    /\ \E price \in {Dec(1) \div 2, Dec(1), Dec(2), Dec(4)} :
           LET first == account_status.len = 0
               row == IF first THEN market
                      ELSE [price |-> price, timestamp |-> market.timestamp + 1]
           IN  \E w \in {on_bar_custom_blocks(World(row.price, row.timestamp), account_status)} :
               /\ row.timestamp <= MaxBlockBars
               /\ market' = row
               /\ Commit(w)
               /\ account_status' = AccountStatus(row.timestamp, w.pos, row.price)
               /\ handler' = IF w.err # NoError \/ EventsOf(w.trace, "open") = {} THEN "on_bar"
                             ELSE IF EventsOf(w.trace, "buy") # {} THEN "shift_up"
                             ELSE "shift_down"
               /\ rebalanced' =
                      IF w.err # NoError \/ EventsOf(w.trace, "open") = {} THEN rebalanced
                      ELSE IF EventsOf(w.trace, "buy") # {}
                      THEN [rebalanced EXCEPT !.up = Append(@, row.timestamp)]
                      ELSE [rebalanced EXCEPT !.down = Append(@, row.timestamp)]
    /\ UNCHANGED <<runVars, ladderVars, extendVars, is_hodl_mode_active, hodl_mode_start_timestamp,
                   hodl_entered, hodl_left, price_series, last_active_position_start_price,
                   is_enough_data_to_start_flag, tracked, looked_up, computed>>

NextBlocks == InitializeBlocks \/ OnBarBlocks

SpecBlocks == InitBlocks /\ [][NextBlocks]_vars


\* the ladder shifts done later than 24 hours before the timestamp
ShiftsSince(timestamp) ==
    Cardinality({i \in 1..Len(rebalanced.up) : rebalanced.up[i] > timestamp - StepsPerDay})
        + Cardinality({i \in 1..Len(rebalanced.down) :
                           rebalanced.down[i] > timestamp - StepsPerDay})

BlocksBar == policy = "D" /\ phase = "running" /\ err' = NoError

BlocksShifted == handler' \in {"shift_up", "shift_down"}

\* C22: in strategy D, on a bar whose price is outside the middle block, the
\* ladder shift is performed if and only if fewer than max_rebalances_per_24h
\* ladder shifts were performed in the preceding 24 hours, each shift counted
\* once and the opens of initialize not counted.
C22_ShiftIffUnderCapOfShifts ==
    [][(BlocksBar /\ is_out_of_active_block(get_middle_position(positions), market'.price) # "None")
       => (BlocksShifted <=> ShiftsSince(market'.timestamp) < config.max_rebalances_per_24h)]_vars


\* the blocks held, lowest first
Blocks == sorted_by_lower(positions)

Contiguous(blocks) ==
    /\ \A i \in 1..Len(blocks) : blocks[i][1] < blocks[i][2]
    /\ \A i \in 1..(Len(blocks) - 1) : blocks[i][2] = blocks[i + 1][1]

\* C23: after initialize and after every ladder shift strategy D holds
\* 2 * amount_of_blocks + 1 positions whose ranges are contiguous and do not
\* overlap; a shift up closes the lowest block and opens one block on top of
\* the highest, a shift down closes the highest block and opens one block
\* under the lowest.
C23_LadderOfContiguousBlocks ==
    [][(policy = "D" /\ err' = NoError /\ handler' \in {"initialize", "shift_up", "shift_down"})
       => \A opened \in {positions'} : \A before \in {Blocks}, after \in {sorted_by_lower(opened)} :
          /\ Len(opened) = (2 * config.amount_of_blocks) + 1
          /\ Contiguous(after)
          /\ handler' = "shift_up" =>
                 /\ market'.price > get_middle_position(positions)[2]
                 /\ SubSeq(after, 1, Len(before) - 1) = Tail(before)
                 /\ after[Len(before)][1] = before[Len(before)][2]
          /\ handler' = "shift_down" =>
                 /\ market'.price < get_middle_position(positions)[1]
                 /\ Tail(after) = SubSeq(before, 1, Len(before) - 1)
                 /\ after[1][2] = before[1][1]]_vars

\* a ladder of five blocks shifted up and later shifted down
C23_Witness ==
    /\ policy = "D"
    /\ err = NoError
    /\ handler = "shift_down"
    /\ config.amount_of_blocks = 2
    /\ Len(rebalanced.up) >= 1
    /\ Len(positions) = 5
    /\ Contiguous(Blocks)

\* ------------------------------------------------------ fee-earned series
MaxStatuses == 4

MaxUncollected == 3

\* a fold that also takes a counter that did not grow for a collection
RECURSIVE fees_line_from_no_growth(_, _, _, _)
fees_line_from_no_growth(uncollected, i, fee_earned_from_previous_positions, previous_fee_uncollected) ==
    IF i > Len(uncollected) THEN <<>>
    ELSE LET fee_uncollected == uncollected[i]
             earned == IF fee_uncollected <= previous_fee_uncollected
                       THEN fee_earned_from_previous_positions + previous_fee_uncollected
                       ELSE fee_earned_from_previous_positions
         IN  <<earned + fee_uncollected>>
                 \o fees_line_from_no_growth(uncollected, i + 1, earned, fee_uncollected)

\* the loop of get_fees_line from the i-th account status on
RECURSIVE fees_line_from(_, _, _, _)
fees_line_from(uncollected, i, fee_earned_from_previous_positions, previous_fee_uncollected) ==
    IF i > Len(uncollected) THEN <<>>
    ELSE LET fee_uncollected == uncollected[i]
             earned == IF fee_uncollected < previous_fee_uncollected
                       THEN fee_earned_from_previous_positions + previous_fee_uncollected
                       ELSE fee_earned_from_previous_positions
         IN  <<earned + fee_uncollected>> \o fees_line_from(uncollected, i + 1, earned, fee_uncollected)

\* BrokkrStrategy.get_fees_line over the uncollected-fee counter of the
\* account statuses
get_fees_line(uncollected) == fees_line_from(uncollected, 1, 0, 0)

\* the counters of the account statuses of a run, one per bar
UncollectedSeries ==
    UNION {[1..n -> (0 - 1)..MaxUncollected] : n \in 0..MaxStatuses}

InitFeesLine ==
    /\ Idle
    /\ phase = "functions"
    /\ policy = "none"
    /\ config = <<>>
    /\ fees_configuration = NoFeesConfiguration
    /\ assets = [base |-> 0, quote |-> 0]
    /\ market = [price |-> Dec(1), timestamp |-> 1]

\* finalize derives the series of one run
FeesLine ==
    /\ phase = "functions"
    /\ \E uncollected \in UncollectedSeries :
           computed' = [function |-> "get_fees_line", uncollected |-> uncollected,
                        fees_line |-> get_fees_line(uncollected)]
    /\ handler' = "get_fees_line"
    /\ UNCHANGED <<runVars, barVars, worldVars, ladderVars, extendVars, hodlVars, tracked, looked_up>>

NextFeesLine == FeesLine

SpecFeesLine == InitFeesLine /\ [][NextFeesLine]_vars

\* the counter values that immediately preceded a decrease at or before i
RECURSIVE CollectedBefore(_, _)
CollectedBefore(uncollected, i) ==
    IF i <= 1 THEN 0
    ELSE CollectedBefore(uncollected, i - 1)
             + (IF uncollected[i] < uncollected[i - 1] THEN uncollected[i - 1] ELSE 0)

\* C24: for counters that are never negative the fee-earned series is
\* non-decreasing, and each entry is the sum of the counter values that
\* immediately preceded each decrease so far plus the current counter value.
C24_FeesLineAccumulates ==
    (computed # <<>> /\ computed.function = "get_fees_line"
         /\ \A i \in 1..Len(computed.uncollected) : computed.uncollected[i] >= 0) =>
        /\ Len(computed.fees_line) = Len(computed.uncollected)
        /\ \A i \in 1..Len(computed.fees_line) :
               /\ computed.fees_line[i]
                      = CollectedBefore(computed.uncollected, i) + computed.uncollected[i]
               /\ i > 1 => computed.fees_line[i - 1] <= computed.fees_line[i]

\* a run with two collections
C24_Witness ==
    /\ computed # <<>>
    /\ computed.function = "get_fees_line"
    /\ computed.uncollected = <<2, 1, 3, 0>>
    /\ computed.fees_line = <<2, 3, 5, 5>>

\* ------------------------------------------------- a second policy instance
\* The attributes declared in the class bodies (stats, the series lists,
\* day_to_rebalance_count, max_range_active_since, ...) belong to the class.
\* An instance gets an attribute of its own only by an assignment
\* (self.x = ...); a mutation in place (self.x[key] = ..., self.x.append(...),
\* self.stats.rebalances_count += 1) changes the object of the class, which
\* every instance reads.  computed records that the second instance exists.
ConstructSecond ==
    /\ phase = "running"
    /\ computed = <<>>
    /\ computed' = [function |-> "__init__", instance |-> 2]
    /\ phase' = "constructed"
    /\ handler' = "__init__"
    \* a new broker and a new market for the new instance
    /\ \E base \in LadderHoldings : assets' = [base |-> base, quote |-> 0]
    /\ \E price \in LadderPrices : market' = [price |-> price, timestamp |-> 1]
    /\ positions' = <<>>
    /\ account_status' = NoAccountStatus
    /\ err' = NoError
    /\ trace' = <<>>
    \* attributes the first instance assigned: the new instance reads the
    \* class defaults
    /\ current_range' = [low |-> 0, high |-> 0]
    /\ max_range_active_since' = 0
    /\ last_successful_rebalance' = 0
    /\ performed' = <<>>
    /\ widest_range_since' = 0
    /\ UNCHANGED extendVars
    \* objects of the class the first instance changed in place
    /\ UNCHANGED <<stats, day_to_rebalance_count>>
    /\ UNCHANGED <<policy, config, fees_configuration, hodl_status, rebalances, hodlVars,
                   tracked, looked_up>>

InitShared ==
    /\ InitLadder
    /\ policy = "B"

NextShared == Initialize \/ OnBar \/ ConstructSecond

SpecShared == InitShared /\ [][NextShared]_vars

\* C25: policy state is per instance: a separately constructed instance has
\* empty day counters and zero OperationsStats whatever another instance has
\* run before.
C25_SecondInstanceStartsClean ==
    (phase = "constructed" /\ computed # <<>>) =>
        (day_to_rebalance_count = <<>> /\ stats = ZeroStats)

\* ------------------------------------- the steps of the rebalance primitive
\* the pool calls of the kinds a and b appear in the trace in this order only
InOrder(tr, a, b) == \A i \in EventsOf(tr, a), j \in EventsOf(tr, b) : i < j

\* C26: one call of rebalance_and_add_symmetric_liquidity removes every open
\* position, then evens the capital out at the current price, then opens the
\* new position, and after it the stats count the removals, the rebalance and
\* the open; no position is open between the last removal and the open, and
\* the call's trace holds the steps of this call only.
C26_RebalanceStepsInOrder ==
    [][(handler' = "rebalance_and_add_symmetric_liquidity")
       => /\ InOrder(trace', "remove_liquidity", "even_rebalance")
          /\ InOrder(trace', "remove_liquidity", "add_liquidity")
          /\ InOrder(trace', "even_rebalance", "add_liquidity")
          /\ \A i \in EventsOf(trace', "remove_liquidity") :
                 /\ trace'[i].args[3] = None
                 /\ IndexOf(positions, PositionInfo(trace'[i].args[1], trace'[i].args[2])) # 0
          /\ Cardinality(EventsOf(trace', "even_rebalance")) <= 1
          /\ Cardinality(EventsOf(trace', "add_liquidity")) <= 1
          /\ EventsOf(trace', "even_rebalance") # {} =>
                 Cardinality(EventsOf(trace', "remove_liquidity")) = Len(positions)
          /\ EventsOf(trace', "buy") \cup EventsOf(trace', "sell") = {}
          /\ err' = NoError =>
                 /\ Cardinality(EventsOf(trace', "add_liquidity")) = 1
                 /\ Len(positions') = 1
                 /\ stats'.withdrawing_lp_count = stats.withdrawing_lp_count + Len(positions)
                 /\ stats'.rebalances_count = stats.rebalances_count + 1
                 /\ stats'.providing_lp_count = stats.providing_lp_count + 1]_vars

\* a rebalance that removed two positions and opened one
C26_Witness ==
    /\ handler = "rebalance_and_add_symmetric_liquidity"
    /\ err = NoError
    /\ Cardinality(EventsOf(trace, "remove_liquidity")) = 2
    /\ Cardinality(EventsOf(trace, "add_liquidity")) = 1
    /\ Len(positions) = 1

\* ------------------------------------------------- the tiers of the ladder
LadderBar == policy \in {"B", "C"} /\ phase = "running"

\* the tier a range belongs to (the ranges of a configuration are distinct)
TierOfRange(range) == CHOOSE i \in 1..Len(config.ranges) : config.ranges[i] = range

\* the day key and the count the handler reads
StatusKey == timestamp_to_key(account_status.timestamp)

StatusCount == GetKey(day_to_rebalance_count, StatusKey, 0)

OtherCountsKept ==
    \A key \in DOMAIN day_to_rebalance_count \cup DOMAIN day_to_rebalance_count' :
        key # StatusKey =>
            GetKey(day_to_rebalance_count', key, 0) = GetKey(day_to_rebalance_count, key, 0)

\* C27: a rebalance of strategy B or C for a position out of range, with the
\* day's count c, uses the range of the first tier i with
\* c < cap_1 + ... + cap_i and makes the count c + 1; with no such tier the
\* bar changes nothing; between forced resets the tier used under one day
\* key never decreases.
C27_FirstTierUnderCumulativeCap ==
    [][LadderBar =>
       /\ handler' = "tier" =>
              \E used \in {positions'[1].range[1]} : \E tier \in {TierOfRange(used)} :
              /\ is_out_of_range(account_status)
              /\ Len(positions') = 1
              /\ KeyOf(positions'[1]) = get_lower_upper_price_for_symmetric_range(used, market'.price)
              /\ StatusCount < SumTo(config.max_rebalances, tier)
              /\ \A i \in 1..(tier - 1) : StatusCount >= SumTo(config.max_rebalances, i)
              /\ GetKey(day_to_rebalance_count', StatusKey, 0) = StatusCount + 1
              /\ OtherCountsKept
              /\ GetKey(performed, StatusKey, NoRebalances).tiers > 0 =>
                     tier >= TierOfRange(positions[1].range[1])
       /\ (/\ handler' = "on_bar"
           /\ err' = NoError
           /\ account_status.len > 0
           /\ is_out_of_range(account_status)
           /\ StatusCount >= SumTo(config.max_rebalances, Len(config.max_rebalances))) =>
              /\ positions' = positions
              /\ assets' = assets
              /\ stats' = stats
              /\ current_range' = current_range
              /\ max_range_active_since' = max_range_active_since
              /\ GetKey(day_to_rebalance_count', StatusKey, 0) = StatusCount
              /\ OtherCountsKept]_vars

\* the second tier used under a day key after the first
C27_Witness ==
    /\ policy \in {"B", "C"}
    /\ handler = "tier"
    /\ err = NoError
    /\ Len(config.ranges) = 2
    /\ config.max_rebalances = <<1, 1>>
    /\ positions[1].range = Some(config.ranges[2])
    /\ \E key \in DOMAIN performed : performed[key].tiers = 2 /\ performed[key].forced = 0

\* ---------------------------------------------- the forced reset of strategy B
WidestRange == config.ranges[Len(config.ranges)]

LadderBarB == policy = "B" /\ phase = "running" /\ err' = NoError

\* C28 as stated: strategy B makes the forced rebalance on exactly the bars
\* at which the range of the widest tier has been the range of the open
\* position for 24 hours or more without a break.
C28_ForcedAfterDayOfWidestRange ==
    [][LadderBarB =>
       (handler' = "force"
            <=> (widest_range_since > 0
                     /\ market'.timestamp - widest_range_since >= StepsPerDay))]_vars

\* C28 amended: strategy B makes the forced rebalance on exactly the bars
\* whose latest account status is 24 hours or more later than the mark
\* max_range_active_since, whether or not the position is out of range; the
\* forced rebalance opens the range of the narrowest tier, sets the count of
\* the day of the latest account status to 0 and clears the mark.  The mark is
\* set, to the timestamp of the latest account status, by every tier
\* rebalance that used the range of the widest tier, and only by those; it is
\* cleared by every tier rebalance that used another range.
C28_ForcedAfterDayOfMark ==
    [][LadderBarB =>
       /\ handler' = "force"
              <=> (/\ account_status.len > 0
                   /\ max_range_active_since > 0
                   /\ account_status.timestamp - max_range_active_since >= StepsPerDay)
       /\ handler' = "force" =>
              /\ Len(positions') = 1
              /\ positions'[1].range = Some(config.ranges[1])
              /\ KeyOf(positions'[1])
                     = get_lower_upper_price_for_symmetric_range(config.ranges[1], market'.price)
              /\ GetKey(day_to_rebalance_count', StatusKey, 1) = 0
              /\ GetKey(day_to_rebalance_count', timestamp_to_key(market'.timestamp), 0) = 0
              /\ OtherCountsKept
              /\ max_range_active_since' = 0
       /\ handler' = "tier" =>
              max_range_active_since'
                  = (IF positions'[1].range = Some(WidestRange) THEN account_status.timestamp ELSE 0)
       /\ handler' \notin {"tier", "force"} => max_range_active_since' = max_range_active_since]_vars

\* a forced rebalance of a ladder of two tiers, a day after a rebalance of
\* the widest tier
C28_Witness ==
    /\ policy = "B"
    /\ handler = "force"
    /\ err = NoError
    /\ Len(config.ranges) = 2
    /\ max_range_active_since = 0
    /\ positions[1].range = Some(config.ranges[1])
    /\ \E key \in DOMAIN performed : performed[key].forced = 1
    /\ \E key \in DOMAIN day_to_rebalance_count : day_to_rebalance_count[key] >= 1

\* ------------------------------- claims on the asymmetric policy's threshold
\* the displacement of the price p from the start price s reaches the
\* threshold, for a position [lo, up]
DisplacementReached(p, s, lo, up) ==
    /\ p # s
    /\ \/ p < lo
       \/ p > up
       \/ p > s /\ Dec(100) * (p - s) >= config.out_of_range_threshold_up * (up - s)
       \/ p < s /\ Dec(100) * (s - p) >= config.out_of_range_threshold_down * (s - lo)

\* C29: the asymmetric policy rebalances on a bar if and only if the
\* displacement of the bar's price from the start price of the position
\* reaches the threshold: never at the start price, always outside the
\* bounds, otherwise when 100 * (price - start) / (upper - start) is at least
\* the up threshold (price above start) or 100 * (start - price) /
\* (start - lower) at least the down threshold (price below start); after the
\* rebalance the start price is the price of the bar.
C29_RebalancesIffDisplacementReached ==
    [][(policy = "AS" /\ phase = "running" /\ err' = NoError /\ Len(positions) > 0
            /\ last_active_position_start_price # None)
       => /\ handler' = "rebalance"
                 <=> DisplacementReached(market'.price, last_active_position_start_price[1],
                                         positions[1].lower, positions[1].upper)
          /\ handler' = "rebalance"
                 => last_active_position_start_price' = Some(market'.price)
          /\ handler' # "rebalance"
                 => /\ last_active_position_start_price' = last_active_position_start_price
                    /\ positions' = positions]_vars

\* a rebalance inside the bounds, at exactly half the way up from the start
\* price under a threshold of 50
C29_Witness ==
    /\ policy = "AS"
    /\ handler = "rebalance"
    /\ err = NoError
    /\ config.out_of_range_threshold_up = Dec(50)
    /\ market.timestamp = 2
    /\ market.price = Dec(1) + 25
    /\ last_active_position_start_price = Some(market.price)

\* ================================================= extend-and-decrease policy
\* config: [initial_range, out_of_range_threshold_in_percentage,
\*          increase_the_range_config, decrease_the_range_config], the hours
\* and days of the two configurations in bar steps and days.
MaxExtendBars == 9

\* BrokkrStrategy.is_position_out_of_range: whether the check raised and, if
\* not, what it returned.  The position price is kept doubled and the levels
\* are compared by cross-multiplying.
is_position_out_of_range(position, out_of_range_percentage_threshold, current_price) ==
    LET lower_price == position[1]
        upper_price == position[2]
        position_price_twice == lower_price + upper_price
    IN  IF out_of_range_percentage_threshold < 0 \/ out_of_range_percentage_threshold > Dec(100)
        THEN [raised |-> TRUE, value |-> FALSE]
        ELSE IF position_price_twice = 2 * current_price
        THEN [raised |-> FALSE, value |-> FALSE]
        ELSE IF current_price < lower_price \/ current_price > upper_price
        THEN [raised |-> FALSE, value |-> TRUE]
        ELSE IF 2 * current_price < position_price_twice
        THEN [raised |-> FALSE,
              value |-> (position_price_twice - 2 * current_price) * Dec(100)
                          > out_of_range_percentage_threshold
                                * (position_price_twice - 2 * lower_price)]
        ELSE [raised |-> FALSE,
              value |-> (2 * current_price - position_price_twice) * Dec(100)
                          > out_of_range_percentage_threshold
                                * (2 * upper_price - position_price_twice)]

\* The handlers work on [w, initialized, increased]: the world and the two
\* flags of the strategy.
Extend(w, flag, increased) == [w |-> w, initialized |-> flag, increased |-> increased]

initialize_extend_and_decrease_strategy(w) ==
    rebalance_and_add_symmetric_liquidity(w, config.initial_range)

\* a widening that leaves the flag as it was
increase_range_unflagged(e) ==
    [e EXCEPT !.w = rebalance_and_add_symmetric_liquidity(@, config.increase_the_range_config.range)]

increase_range(e) ==
    Let(rebalance_and_add_symmetric_liquidity(e.w, config.increase_the_range_config.range),
        LAMBDA w1 : Extend(w1, e.initialized, IF w1.err = NoError THEN TRUE ELSE e.increased))

on_range_increased(e, series, timestamp) ==
    LET maximum_price_change ==
            get_max_price_change_in_past_period(
                series, timestamp, config.decrease_the_range_config.max_price_change_hours)
        average_price_change ==
            get_average_max_daily_price_change(
                series, config.decrease_the_range_config.average_price_change_days, e.w.now)
    IN  IF maximum_price_change < average_price_change
        THEN Let(rebalance_and_add_symmetric_liquidity(e.w, config.initial_range), LAMBDA w1 :
                 Extend(w1, e.initialized, IF w1.err = NoError THEN FALSE ELSE e.increased))
        ELSE e

on_normal_range(e, series, timestamp) ==
    LET maximum_price_change ==
            get_max_price_change_in_past_period(
                series, timestamp, config.increase_the_range_config.max_price_change_hours)
        average_price_change ==
            get_average_max_daily_price_change(
                series, config.increase_the_range_config.average_price_change_days, timestamp)
    IN  IF maximum_price_change > average_price_change THEN increase_range(e) ELSE e

\* a warm-up that ends one bar early
on_bar_custom_extend_early(e, status, start_timestamp, series) ==
    IF status.len = 0 THEN e
    ELSE
    LET delay_time == Max2(config.increase_the_range_config.average_price_change_days,
                           config.decrease_the_range_config.average_price_change_days)
                          * StepsPerDay
        timestamp == e.w.now
    IN  IF e.initialized
        THEN IF Len(e.w.pos) > 0
             THEN Let(is_position_out_of_range(KeyOf(e.w.pos[1]),
                                               config.out_of_range_threshold_in_percentage,
                                               e.w.price), LAMBDA out :
                      IF out.raised
                      THEN [e EXCEPT !.w = Raise(@, "out_of_range_percentage_threshold must be between 0 and 100")]
                      ELSE IF out.value
                      THEN [e EXCEPT !.w = rebalance_and_add_symmetric_liquidity(
                                               @, IF e.increased
                                                  THEN config.increase_the_range_config.range
                                                  ELSE config.initial_range)]
                      ELSE IF e.increased THEN on_range_increased(e, series, timestamp)
                      ELSE on_normal_range(e, series, timestamp))
             ELSE IF e.increased THEN on_range_increased(e, series, timestamp)
             ELSE on_normal_range(e, series, timestamp)
        ELSE IF timestamp >= start_timestamp + delay_time - 1
        THEN Let(initialize_extend_and_decrease_strategy(e.w), LAMBDA w1 :
                 Extend(w1, w1.err = NoError, e.increased))
        ELSE e

\* BrokkrStrategyExtendAndDecrease.on_bar_custom; start_timestamp is that of
\* the first account status
on_bar_custom_extend(e, status, start_timestamp, series) ==
    IF status.len = 0 THEN e
    ELSE
    LET delay_time == Max2(config.increase_the_range_config.average_price_change_days,
                           config.decrease_the_range_config.average_price_change_days)
                          * StepsPerDay
        timestamp == e.w.now
    IN  IF e.initialized
        THEN IF Len(e.w.pos) > 0
             THEN Let(is_position_out_of_range(KeyOf(e.w.pos[1]),
                                               config.out_of_range_threshold_in_percentage,
                                               e.w.price), LAMBDA out :
                      IF out.raised
                      THEN [e EXCEPT !.w = Raise(@, "out_of_range_percentage_threshold must be between 0 and 100")]
                      ELSE IF out.value
                      THEN [e EXCEPT !.w = rebalance_and_add_symmetric_liquidity(
                                               @, IF e.increased
                                                  THEN config.increase_the_range_config.range
                                                  ELSE config.initial_range)]
                      ELSE IF e.increased THEN on_range_increased(e, series, timestamp)
                      ELSE on_normal_range(e, series, timestamp))
             ELSE IF e.increased THEN on_range_increased(e, series, timestamp)
             ELSE on_normal_range(e, series, timestamp)
        ELSE IF timestamp >= start_timestamp + delay_time
        THEN Let(initialize_extend_and_decrease_strategy(e.w), LAMBDA w1 :
                 Extend(w1, w1.err = NoError, e.increased))
        ELSE e

\* BrokkrStrategyExtendAndDecrease(initial_range, out_of_range_threshold,
\* increase_the_range_config, decrease_the_range_config); the asserts of
\* __init__ hold for the hours and days drawn
InitExtend ==
    /\ Idle
    /\ phase = "constructed"
    /\ policy = "ED"
    /\ \E threshold \in {Dec(30), Dec(100)}, increase_days \in {1, 2}, decrease_days \in {1, 2} :
           config = [initial_range |-> Dec(5),
                     out_of_range_threshold_in_percentage |-> threshold,
                     increase_the_range_config |->
                         [max_price_change_hours |-> 1,
                          average_price_change_days |-> increase_days, range |-> Dec(20)],
                     decrease_the_range_config |->
                         [max_price_change_hours |-> 1,
                          average_price_change_days |-> decrease_days]]
    /\ fees_configuration \in LadderFees
    /\ assets = [base |-> Dec(20), quote |-> 0]
    /\ market = [price |-> Dec(1), timestamp |-> 1]

\* BrokkrStrategy.initialize: the policy inherits an empty initialize_custom
InitializeExtend ==
    /\ phase = "constructed"
    /\ policy = "ED"
    /\ phase' = "running"
    /\ handler' = "initialize"
    /\ UNCHANGED <<policy, config, fees_configuration, barVars, worldVars, ladderVars, extendVars,
                   hodlVars, tracked, looked_up, computed>>

\* One bar of the extend-and-decrease policy
OnBarExtend ==
    /\ phase = "running"
    /\ policy = "ED"
    /\ err = NoError
    /\ \E price \in {Dec(1), Dec(1) + 2, Dec(1) + 25} :
           LET first == account_status.len = 0
               row == IF first THEN market
                      ELSE [price |-> price, timestamp |-> market.timestamp + 1]
               series == IF first THEN <<PricePoint(row.timestamp, row.price)>>
                         ELSE Append(price_series, PricePoint(row.timestamp, row.price))
           IN  \E e \in {on_bar_custom_extend(
                             Extend(World(row.price, row.timestamp), initialized,
                                    is_range_increased),
                             account_status, series[1].timestamp, series)} :
               /\ row.timestamp <= MaxExtendBars
               /\ market' = row
               /\ price_series' = series
               /\ Commit(e.w)
               /\ initialized' = e.initialized
               /\ is_range_increased' = e.increased
               /\ account_status' = AccountStatus(row.timestamp, e.w.pos, row.price)
               /\ handler' = IF e.initialized /\ ~initialized
                             THEN "initialize_extend_and_decrease_strategy"
                             ELSE IF e.increased /\ ~is_range_increased THEN "increase_range"
                             ELSE IF ~e.increased /\ is_range_increased THEN "on_range_increased"
                             ELSE IF EventsOf(e.w.trace, "open") # {} THEN "rebalance"
                             ELSE "on_bar"
    /\ UNCHANGED <<runVars, ladderVars, is_hodl_mode_active, hodl_mode_start_timestamp,
                   hodl_entered, hodl_left, rebalanced, last_active_position_start_price,
                   is_enough_data_to_start_flag, tracked, looked_up, computed>>

NextExtend == InitializeExtend \/ OnBarExtend

SpecExtend == InitExtend /\ [][NextExtend]_vars


\* ------------------------------------------------------------------ C30
ExtendBar == policy = "ED" /\ phase = "running"

\* the first timestamp of the run plus the longer of the two averaging windows
WarmUpEnd ==
    price_series'[1].timestamp
        + Max2(config.increase_the_range_config.average_price_change_days,
               config.decrease_the_range_config.average_price_change_days) * StepsPerDay

\* C30: in the extend-and-decrease policy a bar earlier than the run's first
\* timestamp plus max(increase averaging days, decrease averaging days) opens
\* no position and changes no counter; the first bar at or after that time
\* opens exactly one position at the initial range; only later bars rebalance,
\* widen or narrow.
C30_WarmUpGatesFirstPosition ==
    [][ExtendBar =>
          /\ market'.timestamp < WarmUpEnd =>
                 /\ positions' = <<>>
                 /\ trace' = <<>>
                 /\ stats' = stats
                 /\ assets' = assets
                 /\ ~initialized'
                 /\ ~is_range_increased'
          /\ market'.timestamp = WarmUpEnd =>
                 /\ err' = NoError
                 /\ ~initialized /\ initialized'
                 /\ positions = <<>>
                 /\ Len(positions') = 1
                 /\ positions'[1].range = Some(config.initial_range)
                 /\ KeyOf(positions'[1])
                        = get_lower_upper_price_for_symmetric_range(config.initial_range,
                                                                    market'.price)
                 /\ Cardinality(EventsOf(trace', "add_liquidity")) = 1
                 /\ EventsOf(trace', "remove_liquidity") = {}
                 /\ stats'.providing_lp_count = stats.providing_lp_count + 1
                 /\ ~is_range_increased'
          /\ (/\ market'.timestamp # WarmUpEnd
              /\ \/ handler' \in {"rebalance", "increase_range", "on_range_increased"}
                 \/ is_range_increased' # is_range_increased
                 \/ trace' # <<>>) =>
                 /\ initialized
                 /\ market'.timestamp > WarmUpEnd]_vars

\* the warm-up of two days ended with the first position at the initial
\* range, a later bar widened the range and the bar after it narrowed it
C30_Witness ==
    /\ policy = "ED"
    /\ handler = "on_range_increased"
    /\ initialized
    /\ ~is_range_increased
    /\ config.increase_the_range_config.average_price_change_days = 2
    /\ market.timestamp > 2 + 2 * StepsPerDay
    /\ Len(positions) = 1
    /\ positions[1].range = Some(config.initial_range)
    /\ stats.providing_lp_count >= 3
    /\ err = NoError

\* ------------------------------------------------------------------ C31
\* the range that a value of is_range_increased denotes
RangeOfFlag(increased) ==
    IF increased THEN config.increase_the_range_config.range ELSE config.initial_range

RecentChange(side) ==
    get_max_price_change_in_past_period(price_series', market'.timestamp,
                                        side.max_price_change_hours)

AverageChange(side) ==
    get_average_max_daily_price_change(price_series', side.average_price_change_days,
                                       market'.timestamp)

\* C31: in the extend-and-decrease policy, after the warm-up, the open position
\* was opened with the widened range when is_range_increased is true and with
\* the initial range when it is false; the flag turns true only on a bar whose
\* recent maximal price change exceeds the increase-side average, turns false
\* only on a bar where it is below the decrease-side average, and an
\* out-of-range rebalance keeps the flag and reuses the range it denotes.
C31_FlagMatchesOpenPosition ==
    [][(ExtendBar /\ err' = NoError) =>
          /\ initialized' =>
                 /\ Len(positions') = 1
                 /\ positions'[1].range = Some(RangeOfFlag(is_range_increased'))
          /\ IF EventsOf(trace', "add_liquidity") # {}
             THEN KeyOf(positions'[1])
                      = get_lower_upper_price_for_symmetric_range(
                            RangeOfFlag(is_range_increased'), market'.price)
             ELSE /\ positions' = positions
                  /\ is_range_increased' = is_range_increased
          /\ (is_range_increased' /\ ~is_range_increased) =>
                 /\ initialized
                 /\ RecentChange(config.increase_the_range_config)
                        > AverageChange(config.increase_the_range_config)
          /\ (~is_range_increased' /\ is_range_increased) =>
                 RecentChange(config.decrease_the_range_config)
                     < AverageChange(config.decrease_the_range_config)
          /\ handler' = "rebalance" =>
                 /\ is_range_increased' = is_range_increased
                 /\ Len(positions) = 1
                 /\ is_position_out_of_range(
                        KeyOf(positions[1]), config.out_of_range_threshold_in_percentage,
                        market'.price).value]_vars

\* the widened position went out of range and was reopened with the widened
\* range around the new price
C31_Witness ==
    /\ policy = "ED"
    /\ handler = "rebalance"
    /\ err = NoError
    /\ is_range_increased
    /\ Len(positions) = 1
    /\ positions[1].range = Some(config.increase_the_range_config.range)
    /\ KeyOf(positions[1])
           = get_lower_upper_price_for_symmetric_range(config.increase_the_range_config.range,
                                                       market.price)

\* ------------------------------------------------------------------ C32
DynamicBar == policy = "TD" /\ phase = "running" /\ err' = NoError

\* C32: in the time-dynamic policy no position is open while HODL is active;
\* HODL is left only on a bar where at least return_duration_in_hours has
\* elapsed since its entry and the maximal price change over the last
\* return_duration_in_hours is at most return_price_percentage, and that bar
\* opens exactly one position with the freshly derived range; a bar after the
\* warm-up on which the policy is neither in HODL nor entering it ends with at
\* least one position open.
C32_HodlOfTimeDynamic ==
    [][DynamicBar =>
          /\ hodl_mode_start_timestamp' # None => positions' = <<>>
          /\ (hodl_mode_start_timestamp # None /\ hodl_mode_start_timestamp' = None) =>
                 /\ market'.timestamp - hodl_mode_start_timestamp[1]
                        >= config.hodl_configuration.return_duration_in_hours
                 /\ get_max_price_change_in_past_period(
                        price_series', market'.timestamp,
                        config.hodl_configuration.return_duration_in_hours)
                        <= config.hodl_configuration.return_price_percentage
                 /\ positions = <<>>
                 /\ Len(positions') = 1
                 /\ Cardinality(EventsOf(trace', "add_liquidity")) = 1
                 /\ positions'[1].range
                        = Some(get_range_for_last_n_days(price_series', config.last_days_count,
                                                         market'.timestamp).value)
          /\ (is_enough_data_to_start_flag' /\ hodl_mode_start_timestamp' = None) =>
                 Len(positions') >= 1]_vars

\* HODL was entered, lasted over a bar and was left with one position opened
C32_Witness ==
    /\ policy = "TD"
    /\ handler = "exit_hodl_mode"
    /\ err = NoError
    /\ hodl_mode_start_timestamp = None
    /\ config.hodl_configuration.return_duration_in_hours = 2
    /\ Len(positions) = 1
    /\ stats.providing_lp_count >= 2

\* ------------------------------------------------------------------ C33
PartialBar == policy = "PR" /\ phase = "running" /\ account_status.len > 0 /\ err' = NoError

\* the entry's surpassed threshold at the price exists and is not the one
\* last recorded for it
NewlySurpassed(entry, price) ==
    LET price_threshold == get_surpassed_threshold(price, entry.division_price_points_up,
                                                   entry.division_price_points_down)
    IN  /\ price_threshold # None
        /\ (entry.last_partial_rebalance = None
            \/ entry.last_partial_rebalance[1].threshold # price_threshold[1])

\* every position tracked before was withdrawn in full, and one fresh
\* symmetric position around the price is open and tracked, nothing recorded
\* for it
CollapsedIntoSingle ==
    /\ \A i \in 1..Len(tracked) :
           \E j \in EventsOf(trace', "remove_liquidity") :
               /\ PositionInfo(trace'[j].args[1], trace'[j].args[2]) = tracked[i].position_info
               /\ trace'[j].args[3] = None
    /\ Cardinality(EventsOf(trace', "add_liquidity")) = 1
    /\ Len(positions') = 1
    /\ KeyOf(positions'[1])
           = get_lower_upper_price_for_symmetric_range(config.range_in_percentage, market'.price)
    /\ Len(tracked') = 1
    /\ tracked'[1].position_info = PositionInfo(positions'[1].lower, positions'[1].upper)
    /\ tracked'[1].init_price = market'.price
    /\ tracked'[1].last_partial_rebalance = None

\* C33: in the partial-rebalance policy, when a tracked position crosses a
\* threshold not recorded for it while the number of tracked positions equals
\* division, no further position is added: every tracked position is fully
\* withdrawn and afterwards exactly one fresh symmetric position centred on the
\* current price is open and tracked, with no last-crossed threshold recorded.
C33_CollapseAtDivision ==
    [][(/\ PartialBar
        /\ Len(tracked) = config.division
        /\ \E i \in 1..Len(tracked) : NewlySurpassed(tracked[i], market'.price))
       => CollapsedIntoSingle]_vars

\* the same with the crossing position the first of the tracked ones
CollapseAtDivisionFirst ==
    [][(/\ PartialBar
        /\ Len(tracked) = config.division
        /\ NewlySurpassed(tracked[1], market'.price))
       => CollapsedIntoSingle]_vars

\* ------------------------------------------------------------------ C34
\* the bar made a pool call that withdraws from the position
WithdrawnOnBar(position_info) ==
    \E j \in EventsOf(trace', "remove_liquidity") :
        PositionInfo(trace'[j].args[1], trace'[j].args[2]) = position_info

\* C34: in the partial-rebalance policy, on each bar every tracked position
\* whose surpassed threshold at the bar's price differs from the threshold
\* last recorded for it is acted on in that bar (a partial withdrawal and a
\* new position, or the collapse), whatever the state of the other tracked
\* positions; positions whose surpassed threshold is absent or equal to the
\* recorded one trigger no withdrawal and no new position.
C34_EveryCrossingActedOn ==
    [][PartialBar =>
          /\ \A i \in 1..Len(tracked) :
                 NewlySurpassed(tracked[i], market'.price) =>
                     /\ WithdrawnOnBar(tracked[i].position_info)
                     /\ EventsOf(trace', "add_liquidity") # {}
          /\ (\A i \in 1..Len(tracked) : ~NewlySurpassed(tracked[i], market'.price)) =>
                 /\ trace' = <<>>
                 /\ positions' = positions
                 /\ tracked' = tracked]_vars

\* the second half alone, and the first half for the position tracked first
CrossingOfFirstActedOn ==
    [][PartialBar =>
          /\ (Len(tracked) > 0 /\ NewlySurpassed(tracked[1], market'.price)) =>
                 /\ WithdrawnOnBar(tracked[1].position_info)
                 /\ EventsOf(trace', "add_liquidity") # {}
          /\ (\A i \in 1..Len(tracked) : ~NewlySurpassed(tracked[i], market'.price)) =>
                 /\ trace' = <<>>
                 /\ positions' = positions
                 /\ tracked' = tracked]_vars

\* --------------------------------------------- the thresholds of a position
\* Prices, ranges and divisions for calculate_division_price_points.  The
\* Decimal quotient range / division is exact for the pairs drawn, as it is,
\* to 28 digits, for the strategy's Decimal arguments.
PointPrices == {Dec(1), Dec(2), Dec(10), Dec(100), Dec(1) - 8, Dec(17) + 16, Dec(250), Dec(500)}

PointRanges == {Dec(10), Dec(20), Dec(30), Dec(60)}

MaxDivision == 5

InitPoints ==
    /\ Idle
    /\ phase = "functions"
    /\ policy = "PR"
    /\ \E range \in PointRanges, division \in 1..MaxDivision :
           /\ range % Dec(division) = 0
           /\ config = [range_in_percentage |-> range, division |-> division,
                        division_threshold_percentage |-> DecDiv(range, Dec(division))]
    /\ fees_configuration = NoFeesConfiguration
    /\ assets = [base |-> 0, quote |-> 0]
    /\ \E price \in PointPrices : market = [price |-> price, timestamp |-> 1]

\* the thresholds of a position opened at the market price
DivisionPricePoints ==
    /\ phase = "functions"
    /\ policy = "PR"
    /\ computed = <<>>
    /\ \E points \in {calculate_division_price_points(market.price, config.division,
                                                      config.division_threshold_percentage)} :
           computed' = [function |-> "calculate_division_price_points",
                        price |-> market.price,
                        division_price_points_up |-> points[1],
                        division_price_points_down |-> points[2]]
    /\ handler' = "calculate_division_price_points"
    /\ UNCHANGED <<runVars, barVars, worldVars, ladderVars, extendVars, hodlVars, tracked, looked_up>>

NextPoints == DivisionPricePoints

SpecPoints == InitPoints /\ [][NextPoints]_vars

\* ------------------------------------------------------------------ C35
PointsComputed == computed # <<>> /\ computed.function = "calculate_division_price_points"

\* the distance of threshold i from the one before it, the opening price
\* taken as the threshold before the first
Gap(points, price, i) ==
    Abs(points[i].price - (IF i = 1 THEN price ELSE points[i - 1].price))

\* a gap is the difference of two rounded Decimal results, each half a unit
\* of the last place from its exact value; two gaps are compared
RoundingOfGap == 1 + 1

\* division thresholds on each side, numbered from 0, going away from the
\* opening price, the last ones at the bounds of the symmetric position
PointsNumberedToTheBounds ==
    LET up == computed.division_price_points_up
        down == computed.division_price_points_down
        bounds == get_lower_upper_price_for_symmetric_range(config.range_in_percentage,
                                                            computed.price)
    IN  /\ Len(up) = config.division
        /\ Len(down) = config.division
        /\ \A i \in 1..config.division :
               /\ up[i].index = i - 1 /\ up[i].rebalance_direction = "UP"
               /\ down[i].index = i - 1 /\ down[i].rebalance_direction = "DOWN"
               /\ up[i].price > (IF i = 1 THEN computed.price ELSE up[i - 1].price)
               /\ down[i].price < (IF i = 1 THEN computed.price ELSE down[i - 1].price)
        /\ down[config.division].price = bounds[1]
        /\ up[config.division].price = bounds[2]

\* consecutive thresholds are the same distance apart, up to rounding
EvenlySpaced(points) ==
    \A i \in 2..(Len(points) - 1) :
        Abs(Gap(points, computed.price, i + 1) - Gap(points, computed.price, i)) <= RoundingOfGap

\* C35 as stated: division thresholds above and division below the opening
\* price, indexed 0..division-1, evenly spaced in price on each side, strictly
\* increasing upward and strictly decreasing downward, the last threshold of
\* each side at the corresponding bound of a symmetric position of the
\* configured range opened at that price.
C35_ThresholdsEvenlySpaced ==
    PointsComputed =>
        /\ PointsNumberedToTheBounds
        /\ EvenlySpaced(computed.division_price_points_up)
        /\ EvenlySpaced(computed.division_price_points_down)

\* C35 amended: division thresholds above and division below the opening
\* price, indexed 0..division-1, strictly increasing upward and strictly
\* decreasing downward, the last threshold of each side at the corresponding
\* bound of the symmetric position; the upper thresholds are evenly spaced
\* from the opening price on, the lower ones are not: each lower threshold is
\* closer to the one before it than that one is to its predecessor, up to
\* rounding, and by more than the rounding once the gaps are large.
C35_ThresholdsEvenAboveShrinkingBelow ==
    PointsComputed =>
        LET up == computed.division_price_points_up
            down == computed.division_price_points_down
        IN  /\ PointsNumberedToTheBounds
            /\ \A i \in 1..(config.division - 1) :
                   /\ Abs(Gap(up, computed.price, i + 1) - Gap(up, computed.price, i))
                          <= RoundingOfGap
                   /\ Gap(down, computed.price, i + 1)
                          <= Gap(down, computed.price, i) + RoundingOfGap
                   /\ Gap(down, computed.price, i) >= Dec(1) =>
                          Gap(down, computed.price, i + 1) < Gap(down, computed.price, i)
            /\ \A i \in 1..config.division :
                   Gap(down, computed.price, i) <= Gap(up, computed.price, i) + RoundingOfGap

\* three thresholds a side around 100: the upper ones 10 apart, the lower
\* ones 9.09, 7.58 and 6.41 apart
C35_Witness ==
    /\ PointsComputed
    /\ config.division = 3
    /\ computed.price = Dec(100)
    /\ [i \in 1..3 |-> computed.division_price_points_up[i].price]
           = <<Dec(110), Dec(120), Dec(130)>>
    /\ [i \in 1..3 |-> computed.division_price_points_down[i].price]
           = <<Dec(90) + 91, Dec(83) + 33, Dec(76) + 92>>

\* ------------------------------------------------------------------ C36
\* a bar of strategy B with HODL that starts in HODL mode
HodlModeBar == policy = "BH" /\ phase = "running" /\ is_hodl_mode_active

\* the return window with the point of the bar appended to it
WindowWithBar ==
    Append(hodl_status.prices_for_returning_window,
           PricePoint(market'.timestamp, market'.price))

\* the oldest point of the window is at least return_duration old
OldestIsDue ==
    market'.timestamp - config.hodl_configuration.return_duration
        >= WindowWithBar[1].timestamp

\* the window rolls: a point is appended, none is dropped before the oldest
\* is due, then one per bar, and the window keeps the length of the duration
WindowRolls ==
    /\ err' = NoError /\ is_hodl_mode_active' =>
           hodl_status'.prices_for_returning_window
               = IF OldestIsDue THEN Tail(WindowWithBar) ELSE WindowWithBar
    /\ ~OldestIsDue =>
           Len(WindowWithBar) <= config.hodl_configuration.return_duration
    /\ OldestIsDue =>
           Len(Tail(WindowWithBar)) = config.hodl_configuration.return_duration

\* C36: while strategy B with HODL is in HODL mode each bar appends exactly
\* one price point to the return window; no point is dropped until the oldest
\* one is at least return_duration old, and from then on exactly one oldest
\* point is dropped per bar before the movement test, so for equally spaced
\* bars the window keeps its length and is non-empty whenever the movement
\* test is evaluated.
C36_ReturnWindowRollsNonEmpty ==
    [][HodlModeBar =>
          /\ WindowRolls
          /\ OldestIsDue =>
                 /\ Tail(WindowWithBar) # <<>>
                 /\ err' # "ValueError"]_vars

\* the same for the return durations of at least one bar
WindowRollsForPositiveDuration ==
    [][(HodlModeBar /\ config.hodl_configuration.return_duration >= 1) =>
          /\ WindowRolls
          /\ OldestIsDue =>
                 /\ Tail(WindowWithBar) # <<>>
                 /\ err' # "ValueError"]_vars

\* ------------------------------------------------------------------ C37
RanOutOfFunds == "Ran out of funds to pay gas fees!"

\* a primitive was called and ended in the exception of a failed charge
ChargeFailed == phase = "primitives" /\ err = NoError /\ err' = RanOutOfFunds

\* C37 as stated: when a fee charge fails with insufficient funds the failing
\* operation (open, close or rebalance) leaves both balances, the open
\* positions and every counter and cost of the stats as they were before it
\* started.
C37_FailedChargeLeavesNoTrace ==
    [][ChargeFailed => (assets' = assets /\ positions' = positions /\ stats' = stats)]_vars


PoolCalls == {"add_liquidity", "remove_liquidity", "even_rebalance", "buy", "sell"}

\* the fees of the charges of a trace that were paid
RECURSIVE FeesPaid(_)
FeesPaid(tr) ==
    IF tr = <<>> THEN 0
    ELSE (IF Head(tr).op = "fee" THEN Head(tr).args[1] ELSE 0) + FeesPaid(Tail(tr))

CostsOf(s) == s.providing_lp_cost + s.withdrawing_lp_cost + s.rebalances_cost

\* C37 amended: a fee charge that fails with insufficient funds takes nothing
\* from either balance and is counted in no cost, and nothing is rolled back:
\* the operation keeps what it did before the charge.  An open and a capital
\* rebalance charge first, so they leave balances, positions and stats as they
\* were; a close charges after the pool call, so the liquidity is withdrawn,
\* the balances are credited with what the position held and
\* withdrawing_lp_count is incremented, only
\* withdrawing_lp_cost is as before; a composite rebalance keeps the closes
\* that preceded the failing charge.
C37_FailedChargeKeepsEarlierSteps ==
    [][ChargeFailed =>
          \A tr \in {trace'} :
          \A failed \in {tr[Len(tr)]} :
              /\ failed.op = "fee_failed"
              /\ assets' = [base |-> failed.args[2], quote |-> failed.args[3]]
              /\ CostsOf(stats') = CostsOf(stats) + FeesPaid(tr)
              /\ (\A i \in 1..Len(tr) : tr[i].op \notin PoolCalls) =>
                     (assets' = assets /\ positions' = positions /\ stats' = stats)
              /\ handler' = "add_liquidity_custom_range" =>
                     (assets' = assets /\ positions' = positions /\ stats' = stats)
              /\ handler' = "remove_liquidity" =>
                     /\ positions' # positions
                     /\ assets'.base >= assets.base /\ assets'.quote >= assets.quote
                     /\ stats' = [stats EXCEPT !.withdrawing_lp_count = @ + 1]
              /\ stats'.withdrawing_lp_count - stats.withdrawing_lp_count
                     <= Cardinality(EventsOf(tr, "remove_liquidity"))
              /\ Len(positions) - Len(positions')
                     <= Cardinality(EventsOf(tr, "remove_liquidity"))]_vars

\* a close whose charge failed after the position had left the pool
C37_Witness ==
    /\ phase = "primitives"
    /\ err = RanOutOfFunds
    /\ handler = "remove_liquidity"
    /\ EventsOf(trace, "remove_liquidity") # {}
    /\ stats.withdrawing_lp_count = 1
    /\ stats.withdrawing_lp_cost = 0

\* ------------------------------------------------------------------ C38
\* C38: while strategy B with HODL is in HODL mode, on every bar after the
\* entry bar and before the exit bar, the policy opens no position, closes
\* none and does not rebalance the capital, so the open positions and the
\* stats are unchanged; with a parking range of 0 no position is open from
\* the entry on.
C38_NothingMovesInHodl ==
    [][(policy = "BH" /\ phase = "running") =>
          /\ (is_hodl_mode_active /\ is_hodl_mode_active') =>
                 /\ trace' = <<>>
                 /\ positions' = positions
                 /\ stats' = stats
                 /\ assets' = assets
          /\ (is_hodl_mode_active' /\ err' = NoError
              /\ config.hodl_configuration.hodl_mode_range <= 0) =>
                 positions' = <<>>]_vars

\* the second bar spent in HODL mode without a parking position, after a
\* position had been open
C38_Witness ==
    /\ policy = "BH"
    /\ is_hodl_mode_active
    /\ err = NoError
    /\ handler = "on_bar"
    /\ config.hodl_configuration.hodl_mode_range = 0
    /\ market.timestamp >= hodl_entered + 2
    /\ positions = <<>>
    /\ stats.providing_lp_count >= 1
    /\ Len(hodl_status.prices_for_returning_window) >= 1

\* ------------------------------------------------------------------ C39
\* the bar opened at most one position, and a bar that entered HODL mode with
\* a parking range ends with the position of the parking range
AtMostOneRebalance ==
    /\ Cardinality(EventsOf(trace', "add_liquidity")) <= 1
    /\ Cardinality(EventsOf(trace', "even_rebalance")) <= 1
    /\ (~is_hodl_mode_active /\ is_hodl_mode_active' /\ err' = NoError
        /\ config.hodl_configuration.hodl_mode_range > 0) =>
           /\ Len(positions') = 1
           /\ positions'[1].range = Some(config.hodl_configuration.hodl_mode_range)

\* C39: in strategy B with HODL one bar invokes the rebalance primitive at
\* most once: on a bar that enters HODL mode or does a tier or forced
\* rebalance, the threshold check on the position just opened does not
\* rebalance again, for every up and down threshold in (0, 100]; the bar that
\* enters HODL mode with a parking range ends with the parking range open.
C39_OneRebalancePerBar ==
    [][(policy = "BH" /\ phase = "running") => AtMostOneRebalance]_vars

\* the same for thresholds of 50 and 100
OneRebalancePerBarFromHalf ==
    [][(policy = "BH" /\ phase = "running" /\ config.out_of_range_threshold_down >= Dec(50))
       => AtMostOneRebalance]_vars


\* ------------------------------------------- tracked and open positions
TrackedKeys == {tracked[i].position_info : i \in 1..Len(tracked)}

OpenKeys == {KeyOf(positions[i]) : i \in 1..Len(positions)}

\* an entry's threshold lists are those of its own init_price, division each
\* side, and its bounds lie around that price
OwnThresholds(entry) ==
    /\ Len(entry.division_price_points_up) = config.division
    /\ Len(entry.division_price_points_down) = config.division
    /\ <<entry.division_price_points_up, entry.division_price_points_down>>
           = calculate_division_price_points(entry.init_price, config.division,
                                             config.division_threshold_percentage)
    /\ entry.position_info[1] < entry.init_price
    /\ entry.init_price < entry.position_info[2]

\* C40: after initialize and after every bar that ends without an exception,
\* the positions tracked are the positions open in the pool: every open
\* position has one entry, with the thresholds of its own opening price, and
\* no entry is of a position that is closed.
C40_TrackedAreTheOpen ==
    (policy = "PR" /\ phase = "running" /\ err = NoError) =>
        /\ TrackedKeys = OpenKeys
        /\ Cardinality(TrackedKeys) = Len(tracked)
        /\ Cardinality(OpenKeys) = Len(positions)
        /\ Len(tracked) >= 1
        /\ \A i \in 1..Len(tracked) : OwnThresholds(tracked[i])

\* a bar that closed one position for good and opened another, with a
\* position of an earlier bar still open beside it
C40_Witness ==
    /\ policy = "PR"
    /\ phase = "running"
    /\ err = NoError
    /\ handler = "on_bar"
    /\ Len(tracked) >= 2
    /\ TrackedKeys = OpenKeys
    /\ \E j \in EventsOf(trace, "withdrawn") :
           /\ ~StillOpen(trace[j])
           /\ ~StillTracked(trace[j])
    /\ \E i, k \in 1..Len(tracked) : tracked[i].init_price # tracked[k].init_price

====
